---- MODULE Spec2Model ----
(***************************************************************************)
(* State-machine model of the Wespoke web SDK session controller           *)
(* (class Wespoke, src/web-sdk/src/errors.ts lines 174-1257).              *)
(*                                                                         *)
(* JavaScript runs one task at a time: every action below is one           *)
(* synchronous segment of a method, from its invocation or from the        *)
(* resumption of an await to the next await that waits for I/O (network,   *)
(* transport, media device, timer).  The outcome of each I/O is chosen     *)
(* nondeterministically when the segment that consumes it runs.            *)
(***************************************************************************)
EXTENDS Integers, FiniteSets, Sequences

\* ---- bounds of the model ------------------------------------------------
\* invocations of startCall that pass its guard
MaxCalls == 2
\* invocations of endCall that pass its guard
MaxEndCalls == 1
\* invocations of startChatSession that pass its guards
MaxChats == 2
\* invocations of endChatSession that issue a termination request
MaxEndChats == 1

\* invocations of the public methods and message deliveries altogether
MaxOps == 4
\* message ids the assistant produces
MaxMsgs == 1
\* the largest config.maxRetryAttempts a run of connectToRoom on its own is given
MaxAttemptsCfg == 4
\* by how much a timer may fire late, in milliseconds
MaxLate == 1
\* the records a response stream delivers at most
MaxRecords == 4
\* the length of a text at most, in characters
MaxText == 2
\* the calls made on an EventEmitter on its own
MaxBusOps == 4
\* the invocations of toggleMute
MaxToggles == 3
\* the invocations of sendMessage and getMessages
MaxRestCalls == 2
\* the events delivered to the listeners of the widget's transcript
MaxDeliveries == 3

\* ---- program constants --------------------------------------------------
\* config.maxRetryAttempts (206): the default
maxRetryAttempts == 3

\* config.retryDelay (207): the default, in milliseconds
retryDelay == 2000

\* the HTTP statuses the non-success responses of the control API carry here
FailureStatuses == {402, 500}

\* null, the value of a field that holds no id, handle or object (176-187)
NoId == 0
Calls == 1..MaxCalls
EndCalls == 1..MaxEndCalls
Chats == 1..MaxChats
EndChats == 1..MaxEndChats
MsgIds == 1..MaxMsgs

\* CallState (src/web-sdk/src/EventEmitter.ts 181-188)
IDLE == "idle"
CONNECTING == "connecting"
CONNECTED == "connected"
DISCONNECTING == "disconnecting"
DISCONNECTED == "disconnected"
ERROR == "error"

\* ---- error taxonomy (errors.ts 1-142) ---------------------------------------
\* undefined, for a property that holds a string when present
Undefined == "undefined"
\* undefined, for a property that holds a number when present
NoNumber == 0

\* class WespokeError (4-21): an error value is the name of its class, its code,
\* its status code, its message and, for a rate limit, the retry hints.
WespokeError(message, code, statusCode) ==
  [name |-> "WespokeError", code |-> code, statusCode |-> statusCode,
   message |-> message, retryAfter |-> NoNumber, resetAt |-> Undefined]
\* class AuthenticationError (26-31).
AuthenticationError(message) ==
  [WespokeError(message, "AUTHENTICATION_ERROR", 403) EXCEPT !.name = "AuthenticationError"]
\* class InsufficientCreditsError (36-41).
InsufficientCreditsError(message) ==
  [WespokeError(message, "INSUFFICIENT_CREDITS", 402) EXCEPT !.name = "InsufficientCreditsError"]
\* class RateLimitError (46-56).
RateLimitError(message, retryAfter, resetAt) ==
  [WespokeError(message, "RATE_LIMIT_EXCEEDED", 429) EXCEPT
     !.name = "RateLimitError", !.retryAfter = retryAfter, !.resetAt = resetAt]
\* class ConnectionError (61-66).
ConnectionError(message) ==
  [WespokeError(message, "CONNECTION_ERROR", NoNumber) EXCEPT !.name = "ConnectionError"]
\* class ConfigurationError (71-76).
ConfigurationError(message) ==
  [WespokeError(message, "CONFIGURATION_ERROR", NoNumber) EXCEPT !.name = "ConfigurationError"]
\* class AssistantNotFoundError (81-91).
AssistantNotFoundError(assistantId) ==
  [WespokeError("Assistant not found: " \o assistantId, "ASSISTANT_NOT_FOUND", 404)
     EXCEPT !.name = "AssistantNotFoundError"]
\* class MediaDevicesError (96-101).
MediaDevicesError(message) ==
  [WespokeError(message, "MEDIA_DEVICES_ERROR", NoNumber) EXCEPT !.name = "MediaDevicesError"]
\* class APIError (106-111).
APIError(message, code, statusCode) ==
  [WespokeError(message, code, statusCode) EXCEPT !.name = "APIError"]

\* An error of the platform, which is no WespokeError and has no code: a
\* TypeError (a failed fetch, a property read on null), a SyntaxError (a body
\* that is not JSON), an AbortError.
PlatformError(name) ==
  [name |-> name, code |-> Undefined, statusCode |-> NoNumber,
   message |-> "", retryAfter |-> NoNumber, resetAt |-> Undefined]

\* No error: the segment threw nothing.
NoError == PlatformError("none")

\* The classes of the taxonomy (4-111).
TaxonomyKinds ==
  {"WespokeError", "AuthenticationError", "InsufficientCreditsError", "RateLimitError",
   "ConnectionError", "ConfigurationError", "AssistantNotFoundError",
   "MediaDevicesError", "APIError"}

\* The body of an error response as parseAPIError reads it: response?.error's
\* message, code, retryAfter and resetAt, Undefined or NoNumber when absent or
\* falsy.
ErrorBody(message, code, retryAfter, resetAt) ==
  [message |-> message, code |-> code, retryAfter |-> retryAfter, resetAt |-> resetAt]

\* A classifier for which only 403 is an authentication failure.
parseAPIErrorWithout401(response, statusCode) ==
  LET errorMessage == IF response.message # Undefined THEN response.message
                      ELSE "Unknown API error"
      errorCode == IF response.code # Undefined THEN response.code ELSE "UNKNOWN_ERROR"
  IN CASE statusCode = 403 -> AuthenticationError(errorMessage)
       [] statusCode = 402 -> InsufficientCreditsError(errorMessage)
       [] statusCode = 404 -> AssistantNotFoundError(errorMessage)
       [] statusCode = 429 ->
            RateLimitError(errorMessage, response.retryAfter, response.resetAt)
       [] OTHER -> APIError(errorMessage, errorCode, statusCode)

\* parseAPIError (116-142); statusCode is NoNumber when the argument is omitted.
parseAPIError(response, statusCode) ==
  LET errorMessage == IF response.message # Undefined THEN response.message
                      ELSE "Unknown API error"
      errorCode == IF response.code # Undefined THEN response.code ELSE "UNKNOWN_ERROR"
  IN CASE statusCode \in {401, 403} -> AuthenticationError(errorMessage)
       [] statusCode = 402 -> InsufficientCreditsError(errorMessage)
       [] statusCode = 404 -> AssistantNotFoundError(errorMessage)
       [] statusCode = 429 ->
            RateLimitError(errorMessage, response.retryAfter, response.resetAt)
       [] OTHER -> APIError(errorMessage, errorCode, statusCode)

VARIABLES
  this,            \* the fields of the Wespoke instance (a record)
  roomStatus,      \* per Room object: "none", "idle", "connecting", "connected"
  aborted,         \* AbortControllers of connectToRoom whose signal is aborted
  timers,          \* setInterval handles that are still active
  liveTracks,      \* acquired local audio tracks that have not been stopped
  startPc,         \* per startCall invocation: where it is suspended
  attempt,         \* per startCall invocation: connectToRoom's loop counter
  opRoom,          \* per startCall invocation: the Room its pending transport call is on
  callsStarted,    \* number of startCall invocations that passed the guard
  endPc,           \* per endCall invocation: where it is suspended
  discRoom,        \* per endCall invocation: the Room it is disconnecting
  endsStarted,     \* number of endCall invocations that passed the guard
  chatAborted,     \* AbortControllers of startChatSession whose signal is aborted
  chatPc,          \* per startChatSession invocation: where it is suspended, or how it ended
  chatsStarted,    \* number of startChatSession invocations that passed the guards
  endChatPc,       \* per endChatSession invocation: where it is suspended
  endChatsStarted, \* number of endChatSession invocations that issued a request
  destroyed,       \* destroy() has been called
  pollsInFlight,   \* call ids of the polling requests that have not settled
  deliveries,      \* number of data-channel payloads and polling ticks so far
  msgEmits,        \* the 'message' emissions so far: <<id, isComplete>>
  viaPush,         \* ids a data-channel payload has carried
  viaPoll,         \* ids a polling response has carried
  lastPush,        \* per id: the version the latest data-channel payload carried
  endDuring,       \* startCall invocations during whose bootstrap endCall was invoked
  emitted,         \* the events the last segment emitted on the event bus
  thrown,          \* the error with which a method threw or rejected in the last segment
  conn,            \* a run of connectToRoom on its own: its configuration, position and history
  sse,             \* a run of handleSSEStream on its own: its locals, the ledger and what it emitted
  bus,             \* an EventEmitter on its own: its registrations and what the last call did
  cls,             \* a call of parseAPIError on its own: its arguments and its result
  mic,             \* toggleMute and isMuted on their own: the call, the track and the invocations
  rest,            \* sendMessage and getMessages on their own: the session and the invocations
  who,             \* a call of isAssistantParticipant on its own: the participant and the result
  tr,              \* the widget's transcript on its own: its messages and the last delivery
  wg,              \* the widget over the controller: its React state, refs, timers and handlers
  rm,              \* the Room's participant and track handlers on their own: the latch and the attached tracks
  snd              \* sendChatMessage on its own: the session, the clock, the ledger and what it emitted

envVars == <<roomStatus, aborted, timers, liveTracks>>
startVars == <<startPc, attempt, opRoom, callsStarted>>
endVars == <<endPc, discRoom, endsStarted>>
chatVars == <<chatAborted, chatPc, chatsStarted, endChatPc, endChatsStarted>>
msgVars == <<pollsInFlight, deliveries, msgEmits, viaPush, viaPoll, lastPush>>
\* the variables of the functions that are run on their own
unitVars == <<conn, sse, bus, cls, mic, rest, who, tr, wg, rm, snd>>
\* the variables of the controller
coreVars == <<this, envVars, startVars, endVars, chatVars, destroyed, msgVars, endDuring, emitted, thrown>>
vars == <<coreVars, unitVars>>

\* ---- connectToRoom on its own (1153-1185) ----------------------------------

RECURSIVE Pow(_, _)
\* base^exp for a natural exp.
Pow(base, exp) == IF exp = 0 THEN 1 ELSE base * Pow(base, exp - 1)

\* The values of config.retryDelay the runs are given; multiples of 8 keep
\* delay * 1.5^(attempt-1) integral for the attempts the runs can make.
RetryDelays == {retryDelay, 8}

\* A backoff that does not grow.
BackoffDelayFlat(delay, n) == delay

\* The backoff delay after failed attempt number n (1181):
\* delay * Math.pow(1.5, n - 1).
BackoffDelay(delay, n) == (delay * Pow(3, n - 1)) \div Pow(2, n - 1)

\* A loop that retries after an authentication failure as after any other.
AttemptVerdictRetryingAuth(outcome, n, max) ==
  CASE outcome = "ok" -> "resolve"
    [] n = max -> "rejectExhausted"
    [] OTHER -> "retry"

\* What the loop does with the outcome of attempt n out of max (1166-1182).
AttemptVerdict(outcome, n, max) ==
  CASE outcome = "ok" -> "resolve"
    [] outcome = "auth" -> "rejectAuth"
    [] outcome = "transient" /\ n = max -> "rejectExhausted"
    [] OTHER -> "retry"

\* No run of connectToRoom on its own.
ConnUnused ==
  [pc |-> "unused", max |-> 0, delay |-> 0, attempt |-> 0, outcomes |-> <<>>,
   waits |-> <<>>, elapsed |-> 0, error |-> NoError]

\* A run about to start with config.maxRetryAttempts = max and
\* config.retryDelay = delay, on a Room that exists.
ConnReady(max, delay) == [ConnUnused EXCEPT !.pc = "ready", !.max = max, !.delay = delay]

\* ---- handleSSEStream on its own (736-880) ----------------------------------

\* Texts are sequences of characters; the empty one also stands for a field
\* that is absent, which `||` treats alike (791, 796, 805).
Chars == {" ", "h"}
Texts == UNION {[1..n -> Chars] : n \in 0..MaxText}

RECURSIVE trimStart(_)
trimStart(text) ==
  IF text # <<>> /\ Head(text) = " " THEN trimStart(Tail(text)) ELSE text

RECURSIVE trimEnd(_)
trimEnd(text) ==
  IF text # <<>> /\ text[Len(text)] = " "
  THEN trimEnd(SubSeq(text, 1, Len(text) - 1)) ELSE text

\* String.prototype.trim (805).
trim(text) == trimEnd(trimStart(text))

\* One parsed record of the stream (759-783): its event type and the fields
\* of its data the handler reads. For message:start id is data.messageId, for
\* message:chunk content is data.accumulatedContent, for message:complete id,
\* role and content are those of data.message.
SSERecord(type, id, role, content) ==
  [type |-> type, id |-> id, role |-> role, content |-> content]

\* The records the backend sends; "malformed" is one without an event type or
\* without parseable data, "other" one of a type the handler does not know.
SSERecords ==
  {SSERecord("message:start", id, Undefined, <<>>) : id \in {Undefined, "m1"}}
  \cup {SSERecord("message:chunk", Undefined, Undefined, content) : content \in Texts}
  \cup {SSERecord("message:complete", id, role, content) :
          id \in {Undefined, "m1"}, role \in {Undefined, "assistant"}, content \in Texts}
  \cup {SSERecord(type, Undefined, Undefined, <<>>) :
          type \in {"tool:started", "error", "done", "malformed", "other"}}

\* `assistant-${Date.now()}` (744, 791).
FallbackMessageId == "assistant-now"

\* A message whose content prefers the buffer over the record's.
CompleteMessagePreferBuffer(rec, currentMessageId, accumulatedContent) ==
  [id |-> IF rec.id # Undefined THEN rec.id ELSE currentMessageId,
   role |-> IF rec.role # Undefined THEN rec.role ELSE "assistant",
   content |-> IF accumulatedContent # <<>> THEN trim(accumulatedContent) ELSE rec.content]

\* completeMessage (801-808).
CompleteMessage(rec, currentMessageId, accumulatedContent) ==
  [id |-> IF rec.id # Undefined THEN rec.id ELSE currentMessageId,
   role |-> IF rec.role # Undefined THEN rec.role ELSE "assistant",
   content |-> IF rec.content # <<>> THEN rec.content ELSE trim(accumulatedContent)]

\* How far the records handled so far make up message:start, message:chunk*,
\* message:complete.
NextShape(shape, type) ==
  CASE shape = "empty" /\ type = "message:start" -> "started"
    [] shape = "started" /\ type = "message:chunk" -> "started"
    [] shape = "started" /\ type = "message:complete" -> "completed"
    [] OTHER -> "other"

\* The body of the switch (786-868) on the locals and the ledger.
HandleSSERecord(st, rec) ==
  CASE rec.type = "message:start" ->
         [st EXCEPT !.currentMessageId =
                      IF rec.id # Undefined THEN rec.id ELSE FallbackMessageId,
                    !.accumulatedContent = <<>>]
    [] rec.type = "message:chunk" ->
         [st EXCEPT !.accumulatedContent = IF rec.content # <<>> THEN rec.content ELSE @]
    [] rec.type = "message:complete" ->
         LET completeMessage == CompleteMessage(rec, st.currentMessageId, st.accumulatedContent)
         IN IF completeMessage.id \notin st.seenMessageIds
            THEN [st EXCEPT !.seenMessageIds = @ \cup {completeMessage.id},
                            !.messages = Append(@, completeMessage),
                            !.accumulatedContent = <<>>]
            ELSE [st EXCEPT !.accumulatedContent = <<>>]
    [] rec.type = "tool:started" -> [st EXCEPT !.toolEvents = @ + 1]
    [] rec.type = "error" ->
         [st EXCEPT !.pc = "thrown", !.released = TRUE,
                    !.error = WespokeError("Chat error", "CHAT_ERROR", NoNumber)]
    [] rec.type = "done" -> [st EXCEPT !.pc = "returned", !.released = TRUE]
    [] OTHER -> st

\* No run of handleSSEStream on its own.
SseUnused ==
  [pc |-> "unused", body |-> FALSE, records |-> 0, shape |-> "empty",
   last |-> SSERecord("none", Undefined, Undefined, <<>>),
   currentMessageId |-> Undefined, accumulatedContent |-> <<>>,
   seenMessageIds |-> {}, messages |-> <<>>, toolEvents |-> 0,
   released |-> FALSE, error |-> NoError]

\* A run about to start on a response with or without a body, with the ledger
\* sendChatMessage leaves: the id of the user message and those of earlier ones.
SseReady(body, earlier) ==
  [SseUnused EXCEPT !.pc = "ready", !.body = body,
                    !.seenMessageIds = {"user-now"} \cup earlier]

\* ---- EventEmitter on its own (EventEmitter.ts 8-102) -----------------------

\* The events and the handler functions the calls are made with.
Events == {"message", "error"}
Handlers == {"h1", "h2"}

\* An element of the Set of an event: handler h itself, or the wrapper number
\* serial that once made around it (33-36).
Registration(h, isOnce, serial) == [h |-> h, once |-> isOnce, serial |-> serial]

\* handlers.add (24): a Set keeps insertion order and holds an element once.
SetAdd(set, element) ==
  IF \E i \in 1..Len(set) : set[i] = element THEN set ELSE Append(set, element)

\* handlers.delete (47).
SetDelete(set, element) == SelectSeq(set, LAMBDA x : x # element)

RECURSIVE InvokeAllUncaught(_, _, _)
\* A forEach whose callback does not catch.
InvokeAllUncaught(todo, throwers, run) ==
  IF todo = <<>> THEN run
  ELSE LET element == Head(todo)
           called == [run EXCEPT !.calls = Append(@, element.h)]
       IN IF element.h \in throwers
          THEN [called EXCEPT !.escaped = TRUE]
          ELSE InvokeAllUncaught(Tail(todo), throwers,
                 IF element.once
                 THEN [called EXCEPT !.handlers = SetDelete(@, element)]
                 ELSE called)

RECURSIVE InvokeAll(_, _, _)
\* handlers.forEach with its try/catch (65-71) over the elements todo, where
\* the handlers in throwers throw: a wrapper of once calls its handler and
\* then removes itself (34-35), which a throw of the handler skips.
InvokeAll(todo, throwers, run) ==
  IF todo = <<>> THEN run
  ELSE LET element == Head(todo)
           called == [run EXCEPT !.calls = Append(@, element.h)]
       IN InvokeAll(Tail(todo), throwers,
            CASE element.h \in throwers -> [called EXCEPT !.logged = Append(@, element.h)]
              [] element.once -> [called EXCEPT !.handlers = SetDelete(@, element)]
              [] OTHER -> called)

\* emit (59-74) on the Set handlers of the event.
emit(handlers, throwers) ==
  IF handlers = <<>>
  THEN [returned |-> FALSE, calls |-> <<>>, logged |-> <<>>, escaped |-> FALSE,
        handlers |-> handlers]
  ELSE InvokeAll(handlers, throwers,
         [returned |-> TRUE, calls |-> <<>>, logged |-> <<>>, escaped |-> FALSE,
          handlers |-> handlers])

\* No EventEmitter on its own.
BusUnused ==
  [pc |-> "unused", events |-> [ev \in Events |-> <<>>], serial |-> 0, ops |-> 0,
   emits |-> 0, event |-> "none", throwers |-> {},
   returned |-> FALSE, calls |-> <<>>, logged |-> <<>>, escaped |-> FALSE]

\* ---- parseAPIError on its own (116-142) ------------------------------------

\* The status codes the classifier is called with; NoNumber is a call without one.
StatusCodes == {NoNumber, 400, 401, 402, 403, 404, 429, 500, 503}

\* The bodies the classifier is called with: every field present or absent;
\* a null body has all of them absent.
ErrorBodies ==
  {ErrorBody(message, code, retryAfter, resetAt) :
     message \in {Undefined, "denied"}, code \in {Undefined, "DENIED"},
     retryAfter \in {NoNumber, 30}, resetAt \in {Undefined, "tomorrow"}}

\* No call of parseAPIError on its own.
ClsUnused ==
  [pc |-> "unused", response |-> ErrorBody(Undefined, Undefined, NoNumber, Undefined),
   statusCode |-> NoNumber, result |-> NoError]

\* ---- toggleMute and isMuted on their own (337-389) --------------------------

Toggles == 1..MaxToggles

\* A toggleMute that returns the state it replaced.
ToggleResultInverted(newMuted) == ~newMuted

\* What toggleMute returns (377).
ToggleResult(newMuted) == newMuted

\* isMuted() (387-389) on the fields m.
IsMutedOf(m) == IF m.track = "live" THEN m.isMuted ELSE TRUE

\* No use of toggleMute on its own.
MicUnused ==
  [pc |-> [t \in Toggles |-> "unused"], hasCall |-> FALSE, track |-> "none",
   isMuted |-> FALSE, invoked |-> 0,
   before |-> [t \in Toggles |-> FALSE], newMuted |-> [t \in Toggles |-> FALSE],
   returned |-> [t \in Toggles |-> FALSE], returns |-> <<>>,
   apiOk |-> [t \in Toggles |-> FALSE],
   sequential |-> TRUE, error |-> NoError, emitted |-> {}]

\* ---- sendMessage and getMessages on their own (429-493) ---------------------

RestCalls == 1..MaxRestCalls

\* The values of callState and currentCallId a voice session goes through:
\* before the token (224-232), while connecting (232-246), established (252),
\* while endCall runs (276) and after it (324-326).
SessionStages ==
  {<<IDLE, NoId>>, <<CONNECTING, NoId>>, <<CONNECTING, 1>>, <<CONNECTED, 1>>,
   <<DISCONNECTING, 1>>, <<DISCONNECTED, NoId>>}

\* The guards of sendMessage (429-436): the error thrown, NoError when passed.
SendMessageGuard(callState, currentCallId) ==
  CASE currentCallId = NoId -> WespokeError("No active call", "NO_ACTIVE_CALL", NoNumber)
    [] callState # CONNECTED -> WespokeError("Not connected to a call", "NOT_CONNECTED", NoNumber)
    [] OTHER -> NoError

\* The guard of getMessages (467-470).
GetMessagesGuard(callState, currentCallId) ==
  CASE currentCallId = NoId -> WespokeError("No active call", "NO_ACTIVE_CALL", NoNumber)
    [] OTHER -> NoError

\* No use of sendMessage and getMessages on their own.
RestUnused ==
  [pc |-> [i \in RestCalls |-> "unused"], method |-> [i \in RestCalls |-> "none"],
   callState |-> IDLE, currentCallId |-> NoId, invoked |-> 0, requests |-> 0,
   error |-> NoError]

\* ---- isAssistantParticipant on its own (973-989) ----------------------------

\* What participant.metadata holds: nothing (undefined or ''), a text that is
\* not JSON, the JSON null, or a JSON object with the role given or without one.
Metadatas ==
  {"absent", "unparsable", "null", "role:assistant", "role:user", "role:Assistant",
   "norole"}

\* JSON.parse(metadata).role === 'assistant' (976-978): "throws" when parse or
\* the read of role on null throws.
MetadataRole(metadata) ==
  CASE metadata \in {"unparsable", "null"} -> "throws"
    [] metadata = "role:assistant" -> "assistant"
    [] metadata = "role:user" -> "user"
    [] metadata = "role:Assistant" -> "Assistant"
    [] OTHER -> Undefined

\* Identity strings, as sequences of characters.
Identities ==
  {<<"a", "g", "e", "n", "t">>,
   <<"A", "g", "e", "n", "t", "-", "7">>,
   <<"u", "s", "e", "r", "-", "7">>,
   <<"A", "S", "S", "I", "S", "T", "A", "N", "T">>,
   <<"m", "y", "-", "a", "s", "s", "i", "s", "t", "a", "n", "t">>,
   <<"r", "e", "a", "g", "e", "n", "t", "s">>,
   <<"a", "g", "e", "-", "n", "t">>,
   <<"a", "s", "s", "i", "s", "t">>,
   <<>>}

\* The upper-case letters of the identities and their lower-case forms.
LowerOf ==
  [c \in {"A", "S", "I", "T", "N"} |->
     CASE c = "A" -> "a" [] c = "S" -> "s" [] c = "I" -> "i" [] c = "T" -> "t"
       [] OTHER -> "n"]

\* String.prototype.toLowerCase (986).
toLowerCase(text) ==
  [i \in 1..Len(text) |-> IF text[i] \in DOMAIN LowerOf THEN LowerOf[text[i]] ELSE text[i]]

\* String.prototype.includes (987).
includes(text, needle) ==
  \E i \in 1..(Len(text) - Len(needle) + 1) :
    SubSeq(text, i, i + Len(needle) - 1) = needle

\* isAssistantParticipant (973-989).
isAssistantParticipant(metadata, identity) ==
  \/ metadata # "absent" /\ MetadataRole(metadata) = "assistant"
  \/ includes(toLowerCase(identity), <<"a", "g", "e", "n", "t">>)
  \/ includes(toLowerCase(identity), <<"a", "s", "s", "i", "s", "t", "a", "n", "t">>)

\* No call of isAssistantParticipant on its own.
WhoUnused == [pc |-> "unused", metadata |-> "absent", identity |-> <<>>, result |-> FALSE]

\* ---- the widget's transcript on its own (part_004 52, 139-181) --------------

\* The ids the controller's events carry; Undefined is an event without one.
EventIds == {Undefined, "m1", "m2"}

\* widgetMessage of the 'message' listener (141-146).
WidgetMessage(id, content) ==
  [id |-> IF id # Undefined THEN id ELSE "msg-now", content |-> content]

\* The updater of the 'message' listener (151-162): replace the entry with the
\* id in place, or append.
UpsertMessage(prev, widgetMessage) ==
  IF \E i \in 1..Len(prev) : prev[i].id = widgetMessage.id
  THEN LET existingIndex == CHOOSE i \in 1..Len(prev) :
                              /\ prev[i].id = widgetMessage.id
                              /\ \A j \in 1..(i - 1) : prev[j].id # widgetMessage.id
       IN [prev EXCEPT ![existingIndex] = widgetMessage]
  ELSE Append(prev, widgetMessage)

\* The 'transcription' listener (168-180): a final transcription with text
\* other than whitespace is appended.
AppendTranscription(prev, id, isFinal, text) ==
  IF isFinal /\ text # <<>> /\ trim(text) # <<>>
  THEN Append(prev, [id |-> IF id # Undefined THEN id ELSE "transcription-now",
                     content |-> text])
  ELSE prev

\* No use of the transcript on its own.
TrUnused ==
  [pc |-> "unused", messages |-> <<>>, deliveries |-> 0, event |-> "none",
   id |-> Undefined]

\* No function is run on its own, but for unit u.
\* ---- WespokeWidget (src/unnamed/part_004) over the controller ----

\* Invocations of handleStartChatSession the widget model follows.
MaxChatStarts == 3
\* User gestures (toggle, close, start call, end call) the widget model follows.
MaxClicks == 3

ChatStarts == 1..MaxChatStarts

\* The widget modes that start chat sessions on their own (665).
WidgetModes == {"chat", "hybrid"}

\* One invocation of handleStartChatSession: where it stands, the voiceState
\* its closure holds, what invoked it, how it failed, the failure it follows
\* with no user gesture or session end in between ("none" if it follows none),
\* and how many invocations in a row have followed a failure that way.
NoChatStart ==
  [pc |-> "none", voiceIdle |-> TRUE, cause |-> "none", failure |-> "none",
   after |-> "none", nth |-> 0]

\* The widget before it is mounted: its React state as committed by the last
\* render (isOpen, state, voiceState, chatState) and as queued for the next one
\* (nIsOpen, nState, nVoiceState, nChatState), its refs, its retry timers, the
\* controller's fields it drives, and its handlers' positions.
WgUnused ==
  [pc |-> "unused", mode |-> "chat",
   isOpen |-> FALSE, state |-> "idle", voiceState |-> "idle", chatState |-> "idle",
   nIsOpen |-> FALSE, nState |-> "idle", nVoiceState |-> "idle", nChatState |-> "idle",
   chatStartAttemptedRef |-> FALSE, isOpenRef |-> FALSE,
   chatStateRef |-> "idle", voiceStateRef |-> "idle",
   retryTimeoutRef |-> 0, timers |-> {},
   callState |-> IDLE, currentCallId |-> FALSE, currentChatId |-> FALSE,
   chatAbortController |-> 0, aborted |-> {}, shouldEndChatAfterStart |-> FALSE,
   chatStarts |-> 0, cs |-> [i \in ChatStarts |-> NoChatStart],
   startCall |-> "none", endCall |-> "none", endChat |-> "none",
   clicks |-> 0,
   lastFailure |-> "none", excused |-> FALSE, retries |-> 0]

\* The 'stateChange' listener's mapping (182-189).
WidgetStateOf(newState) ==
  IF newState = CONNECTED THEN "connected"
  ELSE IF newState = CONNECTING THEN "connecting"
  ELSE "idle"

\* A user gesture.
Click(w) == [w EXCEPT !.clicks = @ + 1, !.excused = TRUE]

\* The controller's setState (errors.ts 1245-1250) with the widget's
\* 'stateChange' listener (182-189).
SdkSetState(w, newState) ==
  IF w.callState = newState THEN w
  ELSE [w EXCEPT !.callState = newState, !.nState = WidgetStateOf(newState)]

\* The widget's 'disconnected' listener (191-203).
OnDisconnected(w) ==
  [w EXCEPT !.nVoiceState = "idle", !.nChatState = "idle", !.nState = "idle",
            !.chatStartAttemptedRef = FALSE]

\* handleStartChatSession keeps the main state for the voice call in hybrid
\* mode when its closure saw a voice call (452-454, 468-470, 496-498).
TouchesMainState(w, i) == w.mode # "hybrid" \/ w.cs[i].voiceIdle

\* handleStartChatSession after sdk.startChatSession() resolved (463-472):
\* chatState 'connected' and onCallStart(); invocation i is then "started".
ChatStartResolved(w, i) ==
  [w EXCEPT !.nChatState = "connected",
            !.nState = IF TouchesMainState(w, i) THEN "connected" ELSE @,
            !.cs[i].pc = "started",
            !.lastFailure = "none", !.retries = 0]

\* handleStartChatSession's catch for a rejection of the given kind (473-541):
\* no retry after a call-in-progress or authentication error, else a retry
\* timer of 2000 ms whose handle replaces the one in retryTimeoutRef.
ChatStartCatch(w, i, kind) ==
  LET w1 == [w EXCEPT !.nChatState = "idle",
                      !.nState = IF TouchesMainState(w, i) THEN "idle" ELSE @,
                      !.cs[i].pc = "failed", !.cs[i].failure = kind,
                      !.lastFailure = kind, !.excused = FALSE]
  IN IF kind \in {"callInProgress", "auth"}
     THEN [w1 EXCEPT !.chatStartAttemptedRef = FALSE]
     ELSE [w1 EXCEPT !.retryTimeoutRef = i, !.timers = @ \cup {i}]

\* handleStartChatSession up to its await (440-461) with
\* sdk.startChatSession() up to its fetch (errors.ts 498-517): the guards
\* reject before the try block, so they emit nothing.
HandleStartChatSession(w, voiceIdle, cause) ==
  LET i == w.chatStarts + 1
      after == IF w.excused THEN "none" ELSE w.lastFailure
      nth == IF after = "none" THEN 0 ELSE w.retries + 1
      w1 == [w EXCEPT !.chatStartAttemptedRef = TRUE,
                      !.nChatState = "connecting",
                      !.nState = IF w.mode # "hybrid" \/ voiceIdle
                                 THEN "connecting" ELSE @,
                      !.chatStarts = i,
                      !.retries = nth,
                      !.cs[i] = [pc |-> "creating", voiceIdle |-> voiceIdle,
                                 cause |-> cause, failure |-> "none",
                                 after |-> after, nth |-> nth]]
  IN IF w1.currentChatId THEN ChatStartCatch(w1, i, "chatInProgress")
     ELSE IF w1.callState \notin {IDLE, DISCONNECTED} \/ w1.currentCallId
     THEN ChatStartCatch(w1, i, "callInProgress")
     ELSE [SdkSetState(w1, CONNECTING) EXCEPT !.chatAbortController = i,
                                              !.shouldEndChatAfterStart = FALSE]

\* Which way sdk.endChatSession() goes (errors.ts 627-650).
SdkEndChatKind(w) ==
  IF w.callState = CONNECTING /\ w.chatAbortController # 0 /\ ~w.currentChatId
  THEN "abort"
  ELSE IF ~w.currentChatId THEN "noop"
  ELSE "fetch"

\* sdk.endChatSession() up to its return or its fetch (errors.ts 627-655).
SdkEndChatBegin(w) ==
  IF SdkEndChatKind(w) = "abort"
  THEN [SdkSetState(w, IDLE) EXCEPT !.shouldEndChatAfterStart = TRUE,
                                    !.aborted = @ \cup {w.chatAbortController}]
  ELSE IF SdkEndChatKind(w) = "noop"
  THEN [w EXCEPT !.shouldEndChatAfterStart = FALSE]
  ELSE SdkSetState(w, DISCONNECTING)

\* sdk.endChatSession() after its fetch, resolved or rejected alike
\* (errors.ts 657-682).
SdkEndChatDone(w) ==
  OnDisconnected(SdkSetState([w EXCEPT !.currentChatId = FALSE,
                                       !.shouldEndChatAfterStart = FALSE],
                             DISCONNECTED))

\* handleEndChatSession after its await, resolved or rejected alike (582-625).
HandleEndChatSessionDone(w) ==
  [w EXCEPT !.nChatState = "idle",
            !.nState = IF w.mode = "chat" \/ w.nVoiceState = "idle"
                       THEN "idle" ELSE @,
            !.chatStartAttemptedRef = FALSE]

\* handleEndCall after sdk.endCall() resolved (372-386).
HandleEndCallDone(w) ==
  [w EXCEPT !.nVoiceState = "idle",
            !.nState = IF w.mode # "hybrid" \/ w.nChatState = "idle"
                       THEN "idle" ELSE @]

\* handleStartCall's catch (346-360).
HandleStartCallCatch(w) ==
  [w EXCEPT !.nVoiceState = "idle", !.nState = "idle", !.startCall = "none"]

\* handleStartCall from setVoiceState('connecting') to the token fetch of
\* sdk.startCall() (330-334, errors.ts 216-232).
HandleStartCallProceed(w) ==
  LET w1 == [w EXCEPT !.nVoiceState = "connecting", !.nState = "connecting"]
  IN IF w1.callState \notin {IDLE, DISCONNECTED}
     THEN HandleStartCallCatch(w1)
     ELSE [SdkSetState(w1, CONNECTING) EXCEPT !.startCall = "token"]

\* sdk.endCall() up to its return or its fetch (errors.ts 267-275); pending is
\* who waits for it.
SdkEndCallBegin(w, pending) ==
  IF w.callState = IDLE \/ ~w.currentCallId THEN w
  ELSE [SdkSetState(w, DISCONNECTING) EXCEPT !.endCall = pending]

\* A render: the queued state is committed, the effects copy it into the refs
\* (94-105), and the auto-start effect (663-668) runs when what it depends on
\* changed.
Changed(w) ==
  <<w.nIsOpen, w.nState, w.nVoiceState, w.nChatState>>
    # <<w.isOpen, w.state, w.voiceState, w.chatState>>

Render(w) ==
  LET c == [w EXCEPT !.isOpen = w.nIsOpen, !.state = w.nState,
                     !.voiceState = w.nVoiceState, !.chatState = w.nChatState,
                     !.isOpenRef = w.nIsOpen, !.chatStateRef = w.nChatState,
                     !.voiceStateRef = w.nVoiceState]
  IN IF /\ Changed(w)
        /\ c.isOpen /\ c.state = "idle" /\ ~c.chatStartAttemptedRef
        /\ c.chatStarts < MaxChatStarts
     THEN HandleStartChatSession(c, c.voiceState = "idle", "effect")
     ELSE c

\* React renders until nothing is queued: every event is followed by its
\* renders before the next event is handled.
RECURSIVE RenderAll(_)
RenderAll(w) == IF Changed(w) THEN RenderAll(Render(w)) ELSE w

\* ---- the Room's participant and track handlers on their own ----

\* Calls the participant model follows, and Room events per run.
MaxRoomCalls == 2
MaxRoomEvents == 5

\* The remote participants of a Room, with the metadata and identity the
\* identification policy reads: two it accepts and one it rejects.
RemoteParticipants ==
  [p1 |-> [metadata |-> "role:assistant", identity |-> <<"u", "s", "e", "r", "-", "7">>],
   p2 |-> [metadata |-> "absent", identity |-> <<"a", "g", "e", "n", "t">>],
   p3 |-> [metadata |-> "role:user", identity |-> <<"u", "s", "e", "r", "-", "7">>]]

ParticipantNames == DOMAIN RemoteParticipants

\* Track.Kind of a remote track.
TrackKinds == {"audio", "video"}

\* this.isAssistantParticipant(participant) (933, 1212).
IsAssistant(name) ==
  isAssistantParticipant(RemoteParticipants[name].metadata, RemoteParticipants[name].identity)

NoParticipant == <<0, "none">>

\* No Room is followed.
RmUnused ==
  [pc |-> "unused", calls |-> 0, stage |-> "none", checked |-> FALSE,
   order |-> <<>>, subscribed |-> {},
   assistantParticipant |-> NoParticipant, attachedTracks |-> {},
   first |-> "none", events |-> 0]

\* handleAssistantAudioTrack (1005-1024): attaches unless the sid is in the map.
handleAssistantAudioTrack(r, sid) ==
  IF sid \in r.attachedTracks THEN r
  ELSE [r EXCEPT !.attachedTracks = @ \cup {sid}]

\* setupAssistantTracks (991-1003): every publication of the participant that
\* has a track, whatever its kind.
RECURSIVE AttachEach(_, _)
AttachEach(r, sids) ==
  IF sids = {} THEN r
  ELSE LET sid == CHOOSE x \in sids : TRUE
       IN AttachEach(handleAssistantAudioTrack(r, sid), sids \ {sid})

setupAssistantTracks(r, name) ==
  AttachEach(r, {<<r.calls, name, kind>> : kind \in {k \in TrackKinds : <<name, k>> \in r.subscribed}})

\* The latch of the ParticipantConnected handler (932-939) and of
\* checkExistingParticipants (1212-1215).
LatchAssistant(r, name) ==
  IF IsAssistant(name) /\ r.assistantParticipant = NoParticipant
  THEN setupAssistantTracks([r EXCEPT !.assistantParticipant = <<r.calls, name>>], name)
  ELSE r

\* checkExistingParticipants (1208-1218): the participants in the order of the
\* Room's map.
RECURSIVE LatchInOrder(_, _)
LatchInOrder(r, names) ==
  IF names = <<>> THEN r
  ELSE LatchInOrder(LatchAssistant(r, Head(names)), Tail(names))

\* detachTrack (1220-1228) for each of the sids.
DetachEach(r, sids) == [r EXCEPT !.attachedTracks = @ \ sids]

\* The first participant of the sequence that the policy accepts, or "none".
FirstAssistantIn(names) ==
  IF \E i \in 1..Len(names) : IsAssistant(names[i])
  THEN names[CHOOSE i \in 1..Len(names) :
               IsAssistant(names[i]) /\ \A j \in 1..(i - 1) : ~IsAssistant(names[j])]
  ELSE "none"

\* ---- sendChatMessage on its own (574-622) ----------------------------------

\* Invocations of sendChatMessage per run, and the last reading of the clock.
MaxSends == 3
MaxClock == 2

\* The session states sendChatMessage is invoked in: <<callState, currentChatId>>.
ChatStages ==
  {<<IDLE, NoId>>, <<DISCONNECTED, NoId>>, <<CONNECTED, NoId>>, <<CONNECTED, 1>>,
   <<IDLE, 1>>}

\* `user-${Date.now()}` (586) for the clock reading ms.
UserMessageId(ms) == <<"user", ms>>

\* No sendChatMessage on its own.
SndUnused ==
  [pc |-> "unused", callState |-> IDLE, currentChatId |-> NoId, now |-> 0,
   seenMessageIds |-> {}, invoked |-> 0, passed |-> 0, userEmits |-> 0,
   lastId |-> <<"none", 0>>, requests |-> 0, pending |-> 0, error |-> NoError]

OthersUnused(u) ==
  /\ IF u = "conn" THEN TRUE ELSE conn = ConnUnused
  /\ IF u = "sse" THEN TRUE ELSE sse = SseUnused
  /\ IF u = "bus" THEN TRUE ELSE bus = BusUnused
  /\ IF u = "cls" THEN TRUE ELSE cls = ClsUnused
  /\ IF u = "mic" THEN TRUE ELSE mic = MicUnused
  /\ IF u = "rest" THEN TRUE ELSE rest = RestUnused
  /\ IF u = "who" THEN TRUE ELSE who = WhoUnused
  /\ IF u = "tr" THEN TRUE ELSE tr = TrUnused
  /\ IF u = "wg" THEN TRUE ELSE wg = WgUnused
  /\ IF u = "rm" THEN TRUE ELSE rm = RmUnused
  /\ IF u = "snd" THEN TRUE ELSE snd = SndUnused

\* No function is run on its own.
UnitsUnused == OthersUnused("none")

\* Suspension points of startCall's bootstrap (229, 238, 241, 1182, 1193, 1199).
InBootstrap == {"token", "audio", "connect", "backoff", "mic", "publish"}

\* The 'disconnected' event with its reason argument (557, 562, 669, 679, 911).
DisconnectedWith(reason) == "disconnected: " \o reason

\* The reasons the controller passes: the four of the chat methods and the
\* one the Room reports.
DisconnectReasons ==
  {"Chat session start aborted", "Chat session failed to start",
   "Chat session ended", "Chat session ended with error", "room"}

\* The 'disconnected' emissions, whatever the reason.
DisconnectedEvents == {DisconnectedWith(reason) : reason \in DisconnectReasons}

\* Field initialisers of class Wespoke (176-187).
InitCore ==
  /\ this = [callState |-> IDLE, currentCallId |-> NoId, room |-> NoId,
             localAudioTrack |-> NoId, assistantParticipant |-> NoId,
             attachedTracks |-> {}, abortController |-> NoId,
             pollInterval |-> NoId, currentChatId |-> NoId,
             chatAbortController |-> NoId, seenMessageIds |-> {},
             shouldEndChatAfterStart |-> FALSE]
  /\ roomStatus = [r \in Calls |-> "none"]
  /\ aborted = {}
  /\ timers = {}
  /\ liveTracks = {}
  /\ startPc = [s \in Calls |-> "unused"]
  /\ attempt = [s \in Calls |-> 0]
  /\ opRoom = [s \in Calls |-> NoId]
  /\ callsStarted = 0
  /\ endPc = [e \in EndCalls |-> "unused"]
  /\ discRoom = [e \in EndCalls |-> NoId]
  /\ endsStarted = 0
  /\ chatAborted = {}
  /\ chatPc = [c \in Chats |-> "unused"]
  /\ chatsStarted = 0
  /\ endChatPc = [d \in EndChats |-> "unused"]
  /\ endChatsStarted = 0
  /\ destroyed = FALSE
  /\ pollsInFlight = {}
  /\ deliveries = 0
  /\ msgEmits = <<>>
  /\ viaPush = {}
  /\ viaPoll = {}
  /\ lastPush = [m \in MsgIds |-> "none"]
  /\ endDuring = {}
  /\ emitted = {}
  /\ thrown = NoError

\* The controller after construction; no function is run on its own.
Init == InitCore /\ UnitsUnused

\* The runs of connectToRoom on its own, over the configurations.
InitConnect ==
  /\ InitCore
  /\ conn \in {ConnReady(max, delay) : max \in 1..MaxAttemptsCfg, delay \in RetryDelays}
  /\ OthersUnused("conn")

\* setState (1245-1250) assigns callState and emits 'stateChange' on a change;
\* that event is the change of this.callState itself and is not recorded in emitted.

\* stopMessagePolling (1134-1139): clears the interval held in pollInterval.
TimersAfterStop(t) == IF t.pollInterval # NoId THEN timers \ {t.pollInterval} ELSE timers

\* The public methods invoked so far (those that returned at a guard apart).
Invocations ==
  callsStarted + endsStarted + chatsStarted + endChatsStarted
    + Cardinality(chatAborted) + (IF destroyed THEN 1 ELSE 0)

\* The model's budget of invocations and deliveries is not used up.
WithinBudget == Invocations + deliveries < MaxOps

\* The integrator may invoke a public method: the instance is not destroyed
\* and the budget is not used up.
MayInvoke == ~destroyed /\ WithinBudget

\* ---- startCall (216-263) -------------------------------------------------

\* startCall's guard (217): legal only from Idle or Disconnected.
StartCallAccepted == this.callState \in {IDLE, DISCONNECTED}

\* Invocation up to the token fetch (217-229).
StartCall ==
  /\ MayInvoke
  /\ callsStarted < MaxCalls
  /\ StartCallAccepted
  /\ callsStarted' = callsStarted + 1
  /\ startPc' = [startPc EXCEPT ![callsStarted + 1] = "token"]
  /\ this' = [this EXCEPT !.callState = CONNECTING, !.seenMessageIds = {}]
  /\ emitted' = {}
  /\ thrown' = NoError
  /\ UNCHANGED <<envVars, attempt, opRoom, endVars, endDuring, chatVars, destroyed, msgVars>>
  /\ UNCHANGED unitVars

\* An invocation that fails at a guard which clears the ledger first, as
\* startCall would with its statements at 224 and 217-219 exchanged.
StartCallRejectedAfterClear ==
  /\ MayInvoke
  /\ ~StartCallAccepted
  /\ this' = [this EXCEPT !.seenMessageIds = {}]
  /\ thrown' = WespokeError("A call is already in progress", "CALL_IN_PROGRESS", NoNumber)
  /\ emitted' = {}
  /\ UNCHANGED <<envVars, startVars, endVars, chatVars, destroyed, msgVars, endDuring>>
  /\ UNCHANGED unitVars

\* An invocation that fails at the guard (217-219), which is outside the try
\* block: the error is thrown and no event is emitted.
StartCallRejected ==
  /\ MayInvoke
  /\ ~StartCallAccepted
  /\ thrown' = WespokeError("A call is already in progress", "CALL_IN_PROGRESS", NoNumber)
  /\ emitted' = {}
  /\ UNCHANGED <<this, envVars, startVars, endVars, chatVars, destroyed, msgVars, endDuring>>
  /\ UNCHANGED unitVars

\* The catch block as the earlier controller had it (src/unnamed/part_007): the
\* state becomes Error and the call id is kept.
StartCallCatchToError(s, t, ev, err) ==
  /\ this' = [t EXCEPT !.callState = ERROR]
  /\ emitted' = ev \cup {"error"}
  /\ thrown' = err
  /\ startPc' = [startPc EXCEPT ![s] = "failed"]
  /\ attempt' = [attempt EXCEPT ![s] = 0]
  /\ opRoom' = [opRoom EXCEPT ![s] = NoId]

\* The catch block of startCall (254-262), entered with the fields t after the
\* segment had emitted the events ev and the try block threw err, which is
\* emitted on 'error' and rethrown.
StartCallCatch(s, t, ev, err) ==
  /\ this' = [t EXCEPT !.callState = IDLE, !.currentCallId = NoId]
  /\ emitted' = ev \cup {"error"}
  /\ thrown' = err
  /\ startPc' = [startPc EXCEPT ![s] = "failed"]
  /\ attempt' = [attempt EXCEPT ![s] = 0]
  /\ opRoom' = [opRoom EXCEPT ![s] = NoId]

\* The errors a request rejects with whose non-success response is classified,
\* as in fetchToken (712-728) and startChatSession (521-538): the TypeError of
\* a failed request (an unreadable body rejects alike, with a SyntaxError), or
\* the classified error of a non-success response.
RequestErrors ==
  {PlatformError("TypeError")}
    \cup {parseAPIError(ErrorBody("denied", "DENIED", NoNumber, Undefined), status) :
            status \in FailureStatuses}

\* fetchToken resolves or rejects (229-231, 709-731); on a token createRoom
\* (235, 882-898) creates the Room, or the transport's constructor throws.
TokenResponse(s) ==
  /\ startPc[s] = "token"
  /\ \/ /\ this' = [this EXCEPT !.currentCallId = s, !.room = s]
        /\ roomStatus' = [roomStatus EXCEPT ![s] = "idle"]
        /\ startPc' = [startPc EXCEPT ![s] = "audio"]
        /\ emitted' = {}
        /\ thrown' = NoError
        /\ UNCHANGED <<attempt, opRoom>>
     \/ /\ \E err \in RequestErrors : StartCallCatch(s, this, {}, err)
        /\ UNCHANGED roomStatus
     \/ /\ StartCallCatch(s, [this EXCEPT !.currentCallId = s], {}, PlatformError("Error"))
        /\ UNCHANGED roomStatus
  /\ UNCHANGED <<aborted, timers, liveTracks, callsStarted, endVars, endDuring, chatVars, destroyed, msgVars>>
  /\ UNCHANGED unitVars

\* One iteration of connectToRoom's loop from the call of room.connect (1165-1183),
\* with attempt number n and fields t.  A null this.room makes the call throw a
\* TypeError inside the try block, which the loop's catch treats as any other
\* failure that is not an authentication failure.
ConnectAttempt(s, n, t) ==
  IF t.room = NoId
  THEN IF n = maxRetryAttempts
       THEN /\ StartCallCatch(s, t, {}, ConnectionError("Failed to connect after all attempts"))
            /\ UNCHANGED roomStatus
       ELSE /\ startPc' = [startPc EXCEPT ![s] = "backoff"]
            /\ attempt' = [attempt EXCEPT ![s] = n]
            /\ this' = t
            /\ emitted' = {}
            /\ thrown' = NoError
            /\ UNCHANGED <<roomStatus, opRoom>>
  ELSE /\ startPc' = [startPc EXCEPT ![s] = "connect"]
       /\ attempt' = [attempt EXCEPT ![s] = n]
       /\ opRoom' = [opRoom EXCEPT ![s] = t.room]
       /\ roomStatus' = [roomStatus EXCEPT ![t.room] =
                           IF @ = "idle" THEN "connecting" ELSE @]
       /\ this' = t
       /\ emitted' = {}
       /\ thrown' = NoError

\* activateAudioContext settles (238, 1141-1151); connectToRoom starts (1153-1166).
AudioDone(s) ==
  /\ startPc[s] = "audio"
  /\ IF this.room = NoId
     THEN /\ StartCallCatch(s, this, {}, ConnectionError("Room not initialized"))
          /\ UNCHANGED roomStatus
     ELSE ConnectAttempt(s, 1, [this EXCEPT !.abortController = s])
  /\ UNCHANGED <<aborted, timers, liveTracks, callsStarted, endVars, endDuring, chatVars, destroyed, msgVars>>
  /\ UNCHANGED unitVars

\* The outcomes room.connect can have on Room r: it resolves at once on a
\* connected room, and cannot resolve on a room that was disconnected meanwhile.
ConnectOutcomes(r) ==
  CASE roomStatus[r] = "connected" -> {"ok"}
    [] roomStatus[r] = "connecting" -> {"ok", "transient", "auth"}
    [] OTHER -> {"transient"}

\* What the handler of RoomEvent.Connected emits (904-906) when Room r connects.
ConnectedEvent(r) == IF roomStatus[r] = "connecting" THEN {"connected"} ELSE {}

\* room.connect settles (1166-1183); on success publishLocalAudio starts (1187-1197).
ConnectResult(s) ==
  /\ startPc[s] = "connect"
  /\ \E outcome \in ConnectOutcomes(opRoom[s]) :
       CASE outcome = "ok" ->
              /\ roomStatus' = [roomStatus EXCEPT ![opRoom[s]] = "connected"]
              /\ IF this.room = NoId
                 THEN StartCallCatch(s, this, ConnectedEvent(opRoom[s]),
                                     ConnectionError("Room not initialized"))
                 ELSE /\ startPc' = [startPc EXCEPT ![s] = "mic"]
                      /\ emitted' = ConnectedEvent(opRoom[s])
                      /\ thrown' = NoError
                      /\ UNCHANGED <<this, attempt, opRoom>>
         [] outcome = "auth" ->
              /\ roomStatus' = [roomStatus EXCEPT ![opRoom[s]] = "idle"]
              /\ StartCallCatch(s, this, {}, ConnectionError("Authentication failed"))
         [] outcome = "transient" ->
              /\ roomStatus' = [roomStatus EXCEPT ![opRoom[s]] =
                                  IF @ = "connecting" THEN "idle" ELSE @]
              /\ IF attempt[s] = maxRetryAttempts
                 THEN StartCallCatch(s, this, {},
                                     ConnectionError("Failed to connect after all attempts"))
                 ELSE /\ startPc' = [startPc EXCEPT ![s] = "backoff"]
                      /\ emitted' = {}
                      /\ thrown' = NoError
                      /\ UNCHANGED <<this, attempt, opRoom>>
  /\ UNCHANGED <<aborted, timers, liveTracks, callsStarted, endVars, endDuring, chatVars, destroyed, msgVars>>
  /\ UNCHANGED unitVars

\* The backoff wait ends (1182); the loop's next iteration reads
\* this.abortController.signal.aborted (1160-1163) outside the try block: the
\* field is null after endCall (a TypeError), or holds the controller of a
\* later connectToRoom.
BackoffDone(s) ==
  /\ startPc[s] = "backoff"
  /\ IF this.abortController = NoId \/ this.abortController \in aborted
     THEN /\ StartCallCatch(s, this, {},
                           IF this.abortController = NoId
                           THEN PlatformError("TypeError")
                           ELSE ConnectionError("Connection aborted"))
          /\ UNCHANGED roomStatus
     ELSE ConnectAttempt(s, attempt[s] + 1, this)
  /\ UNCHANGED <<aborted, timers, liveTracks, callsStarted, endVars, endDuring, chatVars, destroyed, msgVars>>
  /\ UNCHANGED unitVars

\* createLocalAudioTrack settles (1193-1205); publishTrack is called on this.room,
\* and a null this.room throws inside the try block (a MediaDevicesError).
MicResult(s) ==
  /\ startPc[s] = "mic"
  /\ \E ok \in BOOLEAN :
       IF ok
       THEN /\ liveTracks' = liveTracks \cup {s}
            /\ IF this.room = NoId
               THEN StartCallCatch(s, [this EXCEPT !.localAudioTrack = s], {},
                                   MediaDevicesError("Failed to access microphone"))
               ELSE /\ this' = [this EXCEPT !.localAudioTrack = s]
                    /\ opRoom' = [opRoom EXCEPT ![s] = this.room]
                    /\ startPc' = [startPc EXCEPT ![s] = "publish"]
                    /\ emitted' = {}
                    /\ thrown' = NoError
                    /\ UNCHANGED attempt
       ELSE /\ StartCallCatch(s, this, {}, MediaDevicesError("Failed to access microphone"))
            /\ UNCHANGED liveTracks
  /\ UNCHANGED <<roomStatus, aborted, timers, callsStarted, endVars, endDuring, chatVars, destroyed, msgVars>>
  /\ UNCHANGED unitVars

\* checkExistingParticipants (1208-1218) with setupAssistantTracks and
\* handleAssistantAudioTrack (991-1024): when the assistant is already in the
\* room (present) it is latched unless one is latched, and its track attached.
CheckExistingParticipants(t, present) ==
  IF t.room # NoId /\ present /\ t.assistantParticipant = NoId
  THEN [t EXCEPT !.assistantParticipant = t.room,
                 !.attachedTracks = @ \cup {t.room}]
  ELSE t

\* startMessagePolling (1109-1132): a new interval, stored over the old handle.
StartMessagePolling(s, t) == [t EXCEPT !.pollInterval = s]

\* publishTrack settles (1199-1205); on success the rest of startCall (246-253).
PublishResult(s) ==
  /\ startPc[s] = "publish"
  /\ \E ok \in {b \in BOOLEAN : b => roomStatus[opRoom[s]] = "connected"} :
       IF ok
       THEN \E present \in BOOLEAN :
              LET t1 == CheckExistingParticipants(this, present)
                  t2 == StartMessagePolling(s, t1)
              IN /\ this' = [t2 EXCEPT !.callState = CONNECTED]
                 /\ timers' = timers \cup {s}
                 /\ emitted' = {}
                 /\ thrown' = NoError
                 /\ startPc' = [startPc EXCEPT ![s] = "done"]
                 /\ attempt' = [attempt EXCEPT ![s] = 0]
                 /\ opRoom' = [opRoom EXCEPT ![s] = NoId]
       ELSE /\ StartCallCatch(s, this, {}, MediaDevicesError("Failed to access microphone"))
            /\ UNCHANGED timers
  /\ UNCHANGED <<roomStatus, aborted, liveTracks, callsStarted, endVars, endDuring, chatVars, destroyed, msgVars>>
  /\ UNCHANGED unitVars

\* ---- transport events (900-971) -------------------------------------------

\* The handler of RoomEvent.Disconnected (908-912), applied to the fields t.
OnRoomDisconnected(t) == [t EXCEPT !.callState = DISCONNECTED, !.pollInterval = NoId]

\* The transport drops the connection of Room r (a remote-initiated disconnect).
RoomDisconnected(r) ==
  /\ roomStatus[r] = "connected"
  /\ roomStatus' = [roomStatus EXCEPT ![r] = "idle"]
  /\ this' = OnRoomDisconnected(this)
  /\ timers' = TimersAfterStop(this)
  /\ emitted' = {DisconnectedWith("room")}
  /\ thrown' = NoError
  /\ UNCHANGED <<aborted, liveTracks, startVars, endVars, endDuring, chatVars, destroyed, msgVars>>
  /\ UNCHANGED unitVars

\* ---- endCall (268-332) ------------------------------------------------------

\* endCall's guard (269) on the fields t: a no-op when Idle or without a call id.
EndCallAccepted(t) == t.callState # IDLE /\ t.currentCallId # NoId

\* The startCall invocations that are in their bootstrap.
Bootstrapping == {s \in Calls : startPc[s] \in InBootstrap}

\* endCall from its invocation to the termination request (269-289), on the fields t.
EndCallSync(t) ==
  IF EndCallAccepted(t)
  THEN [t EXCEPT !.callState = DISCONNECTING, !.pollInterval = NoId]
  ELSE t

\* An invocation that passes the guard and issues the termination request.
EndCall ==
  /\ MayInvoke
  /\ endsStarted < MaxEndCalls
  /\ EndCallAccepted(this)
  /\ endsStarted' = endsStarted + 1
  /\ endPc' = [endPc EXCEPT ![endsStarted + 1] = "fetch"]
  /\ this' = EndCallSync(this)
  /\ timers' = TimersAfterStop(this)
  /\ emitted' = {}
  /\ thrown' = NoError
  /\ endDuring' = endDuring \cup Bootstrapping
  /\ UNCHANGED <<roomStatus, aborted, liveTracks, startVars, discRoom, chatVars, destroyed, msgVars>>
  /\ UNCHANGED unitVars

\* An invocation that returns at the guard (269-271).
EndCallNoop ==
  /\ MayInvoke
  /\ ~EndCallAccepted(this)
  /\ endDuring' = endDuring \cup Bootstrapping
  /\ emitted' = {}
  /\ thrown' = NoError
  /\ UNCHANGED <<this, envVars, startVars, endVars, chatVars, destroyed, msgVars>>
  /\ UNCHANGED unitVars

\* The local cleanup of endCall (298-315), applied to the fields t.
EndCallCleanup(t) ==
  [t EXCEPT !.abortController = NoId,
            !.attachedTracks = {},
            !.localAudioTrack = IF t.localAudioTrack # NoId /\ t.room # NoId THEN NoId ELSE @,
            !.assistantParticipant = NoId]

\* The end of endCall (320-325), applied to the fields t.
EndCallFinish(t) ==
  [t EXCEPT !.room = NoId, !.currentCallId = NoId, !.seenMessageIds = {},
            !.callState = DISCONNECTED]

\* The termination request settles (283-319): "ok" and "nonsuccess" are
\* responses, "reject" is a request that failed or whose body is unreadable.
EndFetchResult(e) ==
  /\ endPc[e] = "fetch"
  /\ \E outcome \in {"ok", "nonsuccess", "reject"} :
       /\ IF outcome = "reject"
          THEN /\ endPc' = [endPc EXCEPT ![e] = "failed"]
               /\ emitted' = {"error"}
               /\ thrown' = PlatformError("TypeError")
               /\ UNCHANGED <<this, aborted, liveTracks, discRoom>>
          ELSE LET t1 == EndCallCleanup(this)
               IN /\ aborted' = IF this.abortController # NoId
                                THEN aborted \cup {this.abortController} ELSE aborted
                  /\ liveTracks' = IF this.localAudioTrack # NoId /\ this.room # NoId
                                   THEN liveTracks \ {this.localAudioTrack} ELSE liveTracks
                  /\ IF this.room # NoId
                     THEN /\ this' = t1
                          /\ discRoom' = [discRoom EXCEPT ![e] = this.room]
                          /\ endPc' = [endPc EXCEPT ![e] = "disc"]
                          /\ emitted' = {}
                          /\ thrown' = NoError
                     ELSE /\ this' = EndCallFinish(t1)
                          /\ endPc' = [endPc EXCEPT ![e] = "done"]
                          /\ emitted' = {}
                          /\ thrown' = NoError
                          /\ UNCHANGED discRoom
  /\ UNCHANGED <<roomStatus, timers, startVars, endsStarted, endDuring, chatVars, destroyed, msgVars>>
  /\ UNCHANGED unitVars

\* room.disconnect settles (319-326).  Disconnecting a connecting or connected
\* Room fires RoomEvent.Disconnected (908-912) before the promise resolves.
EndDisconnected(e) ==
  /\ endPc[e] = "disc"
  /\ LET r == discRoom[e]
         fires == roomStatus[r] \in {"connecting", "connected"}
         t1 == IF fires THEN OnRoomDisconnected(this) ELSE this
     IN /\ roomStatus' = [roomStatus EXCEPT ![r] = "idle"]
        /\ timers' = IF fires THEN TimersAfterStop(this) ELSE timers
        /\ this' = EndCallFinish(t1)
        /\ emitted' = (IF fires THEN {DisconnectedWith("room")} ELSE {})
        /\ thrown' = NoError
  /\ endPc' = [endPc EXCEPT ![e] = "done"]
  /\ discRoom' = [discRoom EXCEPT ![e] = NoId]
  /\ UNCHANGED <<aborted, liveTracks, startVars, endsStarted, endDuring, chatVars, destroyed, msgVars>>
  /\ UNCHANGED unitVars

\* ---- startChatSession (498-569) --------------------------------------------

\* The guards of startChatSession (499-508).
StartChatAccepted ==
  /\ this.currentChatId = NoId
  /\ this.callState \in {IDLE, DISCONNECTED}
  /\ this.currentCallId = NoId

\* Invocation up to the creation request (499-532).
StartChatSession ==
  /\ MayInvoke
  /\ chatsStarted < MaxChats
  /\ StartChatAccepted
  /\ chatsStarted' = chatsStarted + 1
  /\ chatPc' = [chatPc EXCEPT ![chatsStarted + 1] = "create"]
  /\ this' = [this EXCEPT !.callState = CONNECTING, !.seenMessageIds = {},
                          !.chatAbortController = chatsStarted + 1,
                          !.shouldEndChatAfterStart = FALSE]
  /\ emitted' = {}
  /\ thrown' = NoError
  /\ UNCHANGED <<envVars, startVars, endVars, chatAborted, endChatPc, endChatsStarted,
                 destroyed, msgVars, endDuring>>
  /\ UNCHANGED unitVars

\* The error of the first guard of startChatSession that fails (499-508).
StartChatGuardError ==
  IF this.currentChatId # NoId
  THEN WespokeError("A chat session is already in progress", "CHAT_IN_PROGRESS", NoNumber)
  ELSE WespokeError("Cannot start chat while a voice call is active", "CALL_IN_PROGRESS",
                    NoNumber)

\* An invocation that fails at a guard (499-508): the error is thrown, no
\* request is issued and no event is emitted.
StartChatRejected ==
  /\ MayInvoke
  /\ ~StartChatAccepted
  /\ thrown' = StartChatGuardError
  /\ emitted' = {}
  /\ UNCHANGED <<this, envVars, startVars, endVars, chatVars, destroyed, msgVars, endDuring>>
  /\ UNCHANGED unitVars

\* Which branch endChatSession takes on the fields t (629-644).
EndChatKind(t) ==
  CASE t.callState = CONNECTING /\ t.chatAbortController # NoId /\ t.currentChatId = NoId
         -> "abort"
    [] OTHER -> IF t.currentChatId = NoId THEN "noop" ELSE "request"

\* endChatSession from its invocation to its return or its termination request
\* (629-656), on the fields t.
EndChatSync(t) ==
  CASE EndChatKind(t) = "abort" ->
         [t EXCEPT !.shouldEndChatAfterStart = TRUE, !.callState = IDLE]
    [] EndChatKind(t) = "noop" -> [t EXCEPT !.shouldEndChatAfterStart = FALSE]
    [] OTHER -> [t EXCEPT !.callState = DISCONNECTING]

\* The creation requests whose abort signal endChatSession raises on the fields t (632).
EndChatAborts(t) == IF EndChatKind(t) = "abort" THEN {t.chatAbortController} ELSE {}

\* The outcomes of the creation request of invocation c: an aborted request
\* rejects with an AbortError unless its response had already arrived.
CreateOutcomes(c) == {"ok", "fail"} \cup (IF c \in chatAborted THEN {"abort"} ELSE {})

\* The creation request settles (534-568).
ChatCreateResult(c) ==
  /\ chatPc[c] = "create"
  /\ \E outcome \in CreateOutcomes(c) :
       CASE outcome = "ok" ->
              LET t1 == [this EXCEPT !.currentChatId = c]
              IN IF t1.shouldEndChatAfterStart
                 THEN /\ this' = EndChatSync(t1)
                      /\ chatPc' = [chatPc EXCEPT ![c] = "ending"]
                      /\ emitted' = {}
                      /\ thrown' = NoError
                 ELSE /\ this' = [t1 EXCEPT !.callState = CONNECTED,
                                            !.chatAbortController = NoId]
                      /\ chatPc' = [chatPc EXCEPT ![c] = "connected"]
                      /\ emitted' = {"connected"}
                      /\ thrown' = NoError
         [] outcome = "abort" ->
              /\ this' = [this EXCEPT !.callState = IDLE, !.chatAbortController = NoId]
              /\ chatPc' = [chatPc EXCEPT ![c] = "aborted"]
              /\ emitted' = {DisconnectedWith("Chat session start aborted")}
              /\ thrown' = NoError
         [] outcome = "fail" ->
              /\ this' = [this EXCEPT !.callState = IDLE, !.chatAbortController = NoId]
              /\ chatPc' = [chatPc EXCEPT ![c] = "failed"]
              /\ emitted' = {DisconnectedWith("Chat session failed to start"), "error"}
              /\ \E err \in RequestErrors : thrown' = err
  /\ UNCHANGED <<envVars, startVars, endVars, chatAborted, chatsStarted, endChatPc,
                 endChatsStarted, destroyed, msgVars, endDuring>>
  /\ UNCHANGED unitVars

\* endChatSession's end without the state reset: what a catch block that only
\* reported the error would leave.
EndChatFinishStuck(t) ==
  [t EXCEPT !.currentChatId = NoId, !.seenMessageIds = {},
            !.shouldEndChatAfterStart = FALSE]

\* The end of endChatSession, on a response (665-669) and on a failed request
\* (673-679) alike, on the fields t.
EndChatFinish(t) ==
  [t EXCEPT !.currentChatId = NoId, !.seenMessageIds = {},
            !.shouldEndChatAfterStart = FALSE, !.callState = DISCONNECTED]

\* The termination request of the endChatSession that startChatSession awaits
\* (545) settles; a failed request is rethrown into startChatSession's catch
\* block (560-568).
ChatEndResult(c) ==
  /\ chatPc[c] = "ending"
  /\ \E outcome \in {"ok", "nonsuccess", "reject"} :
       IF outcome = "reject"
       THEN /\ this' = [EndChatFinish(this) EXCEPT !.callState = IDLE,
                                                    !.chatAbortController = NoId]
            /\ chatPc' = [chatPc EXCEPT ![c] = "failed"]
            /\ emitted' = {DisconnectedWith("Chat session ended with error"),
                            DisconnectedWith("Chat session failed to start"), "error"}
            /\ thrown' = PlatformError("TypeError")
       ELSE /\ this' = [EndChatFinish(this) EXCEPT !.chatAbortController = NoId]
            /\ chatPc' = [chatPc EXCEPT ![c] = "torn"]
            /\ emitted' = {DisconnectedWith("Chat session ended")}
            /\ thrown' = NoError
  /\ UNCHANGED <<envVars, startVars, endVars, chatAborted, chatsStarted, endChatPc,
                 endChatsStarted, destroyed, msgVars, endDuring>>
  /\ UNCHANGED unitVars

\* ---- endChatSession (627-683) ----------------------------------------------

\* An invocation that aborts the pending creation request (629-635).
EndChatAbort ==
  /\ MayInvoke
  /\ EndChatKind(this) = "abort"
  /\ this' = EndChatSync(this)
  /\ chatAborted' = chatAborted \cup EndChatAborts(this)
  /\ emitted' = {}
  /\ thrown' = NoError
  /\ UNCHANGED <<envVars, startVars, endVars, chatPc, chatsStarted, endChatPc,
                 endChatsStarted, destroyed, msgVars, endDuring>>
  /\ UNCHANGED unitVars

\* An invocation without a chat id, which only resets the flag (638-642).
EndChatNoop ==
  /\ MayInvoke
  /\ EndChatKind(this) = "noop"
  /\ this' = EndChatSync(this)
  /\ emitted' = {}
  /\ thrown' = NoError
  /\ UNCHANGED <<envVars, startVars, endVars, chatVars, destroyed, msgVars, endDuring>>
  /\ UNCHANGED unitVars

\* An invocation with a chat id, up to the termination request (644-656).
EndChatSession ==
  /\ MayInvoke
  /\ endChatsStarted < MaxEndChats
  /\ EndChatKind(this) = "request"
  /\ this' = EndChatSync(this)
  /\ endChatsStarted' = endChatsStarted + 1
  /\ endChatPc' = [endChatPc EXCEPT ![endChatsStarted + 1] = "fetch"]
  /\ emitted' = {}
  /\ thrown' = NoError
  /\ UNCHANGED <<envVars, startVars, endVars, chatAborted, chatPc, chatsStarted,
                 destroyed, msgVars, endDuring>>
  /\ UNCHANGED unitVars

\* The termination request settles (658-682).
EndChatResult(d) ==
  /\ endChatPc[d] = "fetch"
  /\ \E outcome \in {"ok", "nonsuccess", "reject"} :
       /\ this' = EndChatFinish(this)
       /\ endChatPc' = [endChatPc EXCEPT ![d] = IF outcome = "reject" THEN "failed" ELSE "done"]
       /\ emitted' = IF outcome = "reject"
                     THEN {DisconnectedWith("Chat session ended with error"), "error"}
                     ELSE {DisconnectedWith("Chat session ended")}
       /\ thrown' = IF outcome = "reject" THEN PlatformError("TypeError") ELSE NoError
  /\ UNCHANGED <<envVars, startVars, endVars, chatAborted, chatPc, chatsStarted,
                 endChatsStarted, destroyed, msgVars, endDuring>>
  /\ UNCHANGED unitVars

\* ---- destroy (695-705) -------------------------------------------------------

\* stopMessagePolling, then endCall and endChatSession up to their first await,
\* then removeAllListeners.
Destroy ==
  /\ MayInvoke
  /\ LET t0 == [this EXCEPT !.pollInterval = NoId]
         t1 == EndCallSync(t0)
         t2 == EndChatSync(t1)
     IN /\ EndCallAccepted(t0) => endsStarted < MaxEndCalls
        /\ EndChatKind(t1) = "request" => endChatsStarted < MaxEndChats
        /\ this' = t2
        /\ timers' = TimersAfterStop(this)
        /\ chatAborted' = chatAborted \cup EndChatAborts(t1)
        /\ IF EndCallAccepted(t0)
           THEN /\ endsStarted' = endsStarted + 1
                /\ endPc' = [endPc EXCEPT ![endsStarted + 1] = "fetch"]
           ELSE UNCHANGED <<endsStarted, endPc>>
        /\ IF EndChatKind(t1) = "request"
           THEN /\ endChatsStarted' = endChatsStarted + 1
                /\ endChatPc' = [endChatPc EXCEPT ![endChatsStarted + 1] = "fetch"]
           ELSE UNCHANGED <<endChatsStarted, endChatPc>>
  /\ destroyed' = TRUE
  /\ endDuring' = endDuring \cup Bootstrapping
  /\ emitted' = {}
  /\ thrown' = NoError
  /\ UNCHANGED <<roomStatus, aborted, liveTracks, startVars, discRoom, chatPc, chatsStarted, msgVars>>
  /\ UNCHANGED unitVars

\* ---- message delivery (1026-1059, 1109-1132) -------------------------------

\* The call whose conversation message m belongs to: the server issues every
\* message id once, for one call.
MsgCall(m) == ((m - 1) % MaxCalls) + 1

\* Whether handleDataChannelMessage suppresses the payload (1037-1040).
PushSuppressed(t, m, isComplete) == m \in t.seenMessageIds /\ ~isComplete

\* The ledger after handleDataChannelMessage emitted the payload (1056-1058).
SeenAfterPush(t, m, isComplete) ==
  IF isComplete THEN t.seenMessageIds \cup {m} ELSE t.seenMessageIds

\* RoomEvent.DataReceived on Room r with a conversation message (962-964,
\* 1031-1059): the handlers of a Room stay registered for as long as the Room
\* is connected, whatever the controller has done since.
DataReceived(r, m, isComplete) ==
  /\ WithinBudget
  /\ roomStatus[r] = "connected"
  /\ MsgCall(m) = r
  /\ deliveries' = deliveries + 1
  /\ viaPush' = viaPush \cup {m}
  /\ lastPush' = [lastPush EXCEPT ![m] = IF isComplete THEN "final" ELSE "partial"]
  /\ IF PushSuppressed(this, m, isComplete)
     THEN /\ emitted' = {}
          /\ thrown' = NoError
          /\ UNCHANGED <<this, msgEmits>>
     ELSE /\ this' = [this EXCEPT !.seenMessageIds = SeenAfterPush(this, m, isComplete)]
          /\ msgEmits' = Append(msgEmits, <<m, isComplete>>)
          /\ emitted' = {"message"}
          /\ thrown' = NoError
  /\ UNCHANGED <<envVars, startVars, endVars, chatVars, destroyed, pollsInFlight,
                 viaPoll, endDuring>>
  /\ UNCHANGED unitVars

\* A tick of polling interval i whose callback passes its guard (1112-1115) and,
\* through getMessages (467-480), issues the request for the current call; the
\* model keeps at most one request per call in flight.
PollTick(i) ==
  /\ WithinBudget
  /\ i \in timers
  /\ this.currentCallId # NoId /\ this.callState = CONNECTED
  /\ this.currentCallId \notin pollsInFlight
  /\ pollsInFlight' = pollsInFlight \cup {this.currentCallId}
  /\ deliveries' = deliveries + 1
  /\ emitted' = {}
  /\ thrown' = NoError
  /\ UNCHANGED <<this, envVars, startVars, endVars, chatVars, destroyed, msgEmits,
                 viaPush, viaPoll, lastPush, endDuring>>
  /\ UNCHANGED unitVars

\* The ids the callback emits out of the response ms, in order (1120-1126).
PollEmits(t, ms) == {m \in ms : m \notin t.seenMessageIds}

RECURSIVE EmitAll(_, _)
\* msgEmits after the final versions of the ids in ms were emitted in id order.
EmitAll(log, ms) ==
  IF ms = {} THEN log
  ELSE LET m == CHOOSE x \in ms : \A y \in ms : x <= y
       IN EmitAll(Append(log, <<m, TRUE>>), ms \ {m})

\* The polling request for call k settles (1115-1129): it fails, which is only
\* logged, or answers the stored messages ms of that call.
PollResponse(k) ==
  /\ k \in pollsInFlight
  /\ pollsInFlight' = pollsInFlight \ {k}
  /\ \E ms \in SUBSET {m \in MsgIds : MsgCall(m) = k} :
       /\ this' = [this EXCEPT !.seenMessageIds = @ \cup PollEmits(this, ms)]
       /\ msgEmits' = EmitAll(msgEmits, PollEmits(this, ms))
       /\ viaPoll' = viaPoll \cup ms
       /\ emitted' = IF PollEmits(this, ms) # {} THEN {"message"} ELSE {}
       /\ thrown' = NoError
  /\ UNCHANGED <<envVars, startVars, endVars, chatVars, destroyed, deliveries,
                 viaPush, lastPush, endDuring>>
  /\ UNCHANGED unitVars

\* ---- observers ----------------------------------------------------------------

\* getCallId (408-410).
getCallId == this.currentCallId

\* getChatId (688-690).
getChatId == this.currentChatId

\* No operation is in flight: no method is suspended at an await and no polling
\* request is pending.
Quiescent ==
  /\ \A s \in Calls : startPc[s] \notin InBootstrap
  /\ \A e \in EndCalls : endPc[e] \notin {"fetch", "disc"}
  /\ \A c \in Chats : chatPc[c] \notin {"create", "ending"}
  /\ \A d \in EndChats : endChatPc[d] # "fetch"
  /\ pollsInFlight = {}

\* The Rooms on which a transport connect is pending or established.
RoomsUp == {r \in Calls : roomStatus[r] \in {"connecting", "connected"}}

\* The positions of msgEmits at which version v (TRUE: complete) of id m was emitted.
EmissionsOf(m, v) == {i \in 1..Len(msgEmits) : msgEmits[i] = <<m, v>>}

\* ---- properties ---------------------------------------------------------------

\* C1: when endCall() was invoked during the bootstrap of startCall (the only
\* startCall, with no chat operation and no destroy), then once startCall and
\* every endCall have completed the state is Idle or Disconnected, no polling
\* timer is active and no Room is connecting or connected.
C1_EndDuringBootstrap ==
  \A s \in endDuring :
    ( /\ callsStarted = 1 /\ chatsStarted = 0 /\ ~destroyed
      /\ startPc[s] \in {"done", "failed"}
      /\ \A e \in EndCalls : endPc[e] \notin {"fetch", "disc"} )
    => /\ this.callState \in {IDLE, DISCONNECTED}
       /\ timers = {}
       /\ RoomsUp = {}

\* C2: a startChatSession whose creation request endChatSession aborted never
\* emits 'connected', and the controller is Idle when that start completes,
\* whatever startChatSession/endChatSession calls came in between (no voice
\* call and no destroy involved).
C2_AbortedStartNeverConnects ==
  [][ \A c \in chatAborted :
        ( /\ callsStarted = 0 /\ ~destroyed
          /\ chatPc[c] \in {"create", "ending"}
          /\ chatPc'[c] \notin {"create", "ending"} )
        => /\ chatPc'[c] # "connected"
           /\ this'.callState = IDLE ]_vars

\* C3: an id that both a data-channel payload and a polling response have
\* carried has exactly one emission of its complete version.
C3_OneFinalEmission ==
  \A m \in MsgIds :
    (m \in viaPush /\ m \in viaPoll) => Cardinality(EmissionsOf(m, TRUE)) = 1

\* C4: when the latest data-channel payload of an id carried its complete
\* version, the last emission of that id is the complete version; and no
\* incomplete version of an id is emitted after a complete version of it.
C4_CompleteWins ==
  \A m \in MsgIds :
    /\ lastPush[m] = "final" =>
         /\ EmissionsOf(m, TRUE) # {}
         /\ \A i \in EmissionsOf(m, FALSE) : \E j \in EmissionsOf(m, TRUE) : i < j
    /\ \A i \in EmissionsOf(m, TRUE) : \A j \in EmissionsOf(m, FALSE) : j < i

\* C5: the call id and the chat id are never both set.
C5_VoiceChatExclusive == ~(getCallId # NoId /\ getChatId # NoId)

\* The local resources of a call are freed: polling stopped, connect aborted,
\* remote audio detached, microphone stopped, room disconnected and released,
\* call id and ledger cleared, state Disconnected.
CallResourcesFreed ==
  /\ this.pollInterval = NoId
  /\ this.abortController = NoId
  /\ this.attachedTracks = {}
  /\ this.localAudioTrack = NoId
  /\ this.room = NoId
  /\ this.currentCallId = NoId
  /\ this.seenMessageIds = {}
  /\ this.callState = DISCONNECTED

\* C6: whenever an endCall that issued its termination request for an
\* established call completes (one startCall, which succeeded; no chat, no
\* destroy), the local resources of the call are freed, whatever the outcome
\* of the request.
C6_EndCallAlwaysFrees ==
  [][ \A e \in EndCalls :
        ( /\ callsStarted = 1 /\ chatsStarted = 0 /\ ~destroyed
          /\ startPc[1] = "done"
          /\ endPc[e] \in {"fetch", "disc"}
          /\ endPc'[e] \in {"done", "failed"} )
        => CallResourcesFreed' ]_vars

\* C7: whenever a startCall fails during its bootstrap, the 'error' event is
\* emitted, the state is Idle, getCallId() is null and startCall's guard
\* accepts the next invocation.
C7_FailedStartResets ==
  [][ \A s \in Calls :
        (startPc[s] \in InBootstrap /\ startPc'[s] = "failed")
        => /\ "error" \in emitted'
           /\ this'.callState = IDLE
           /\ getCallId' = NoId
           /\ StartCallAccepted' ]_vars

\* C7 witnessed: a startCall has just failed after its Room had connected
\* (at the microphone or the publish step), and one that failed at the token
\* step or in connectToRoom is covered by the same catch block.
C7_Witness ==
  \E s \in Calls :
    /\ startPc[s] = "failed"
    /\ roomStatus[s] = "connected"
    /\ "error" \in emitted
    /\ this.callState = IDLE

\* C8: when no operation is in flight and the state is Idle or Disconnected,
\* the controller holds no Room and no Room is connecting or connected.
C8_NoRoomWhenIdle ==
  (Quiescent /\ this.callState \in {IDLE, DISCONNECTED})
    => (this.room = NoId /\ RoomsUp = {})

\* C9: when the transport drops the Room of a Connected call, the state becomes
\* Disconnected and the call id is cleared.
C9_RemoteDisconnectClearsId ==
  [][ \A r \in Calls :
        (this.callState = CONNECTED /\ this.room = r /\ RoomDisconnected(r))
        => (this'.callState = DISCONNECTED /\ getCallId' = NoId) ]_vars

\* C10: the polling timer of a call is active only while the call is live: its
\* startCall succeeded and its Room is still connected; and, unless an endCall
\* is still in progress, destroy() has not been called and no endCall or
\* destroy was invoked during the bootstrap of the call.
C10_TimerWithinSession ==
  \A s \in timers :
    /\ startPc[s] = "done"
    /\ roomStatus[s] = "connected"
    /\ \/ \E e \in EndCalls : endPc[e] \in {"fetch", "disc"}
       \/ (~destroyed /\ s \notin endDuring)

\* An invocation of startCall, whatever its guard decides.
StartCallInvoked == StartCall \/ StartCallRejected

\* C11: a startCall invoked in a state other than Idle and Disconnected throws
\* the error with code CALL_IN_PROGRESS, emits no event and leaves every field
\* of the controller (state, call id, ledger, timer handle) and the active
\* timers unchanged; no request is issued.
C11_RejectedStartCallFrame ==
  [][ (StartCallInvoked /\ this.callState \notin {IDLE, DISCONNECTED})
        => /\ thrown'.name = "WespokeError"
           /\ thrown'.code = "CALL_IN_PROGRESS"
           /\ emitted' = {}
           /\ UNCHANGED <<this, timers, startPc, callsStarted>> ]_vars

\* C11 witnessed: startCall has just been rejected on a Connected call whose
\* polling timer runs and whose ledger holds an id.
C11_Witness ==
  /\ thrown = WespokeError("A call is already in progress", "CALL_IN_PROGRESS", NoNumber)
  /\ this.callState = CONNECTED
  /\ this.currentCallId # NoId
  /\ this.pollInterval \in timers
  /\ this.seenMessageIds # {}

\* An invocation of startChatSession, whatever its guards decide.
StartChatInvoked == StartChatSession \/ StartChatRejected

\* C12: a startChatSession invoked while the call id is set throws the error
\* with code CALL_IN_PROGRESS, issues no creation request and leaves the fields
\* of the controller (state, chat id, ledger) unchanged.
C12_RejectedStartChatFrame ==
  [][ (StartChatInvoked /\ this.currentCallId # NoId)
        => /\ thrown'.code = "CALL_IN_PROGRESS"
           /\ UNCHANGED <<this, chatPc, chatsStarted>> ]_vars

\* A step of unit u leaves the controller and the other units alone.
Frame(u) ==
  /\ UNCHANGED coreVars
  /\ IF u = "conn" THEN TRUE ELSE UNCHANGED conn
  /\ IF u = "sse" THEN TRUE ELSE UNCHANGED sse
  /\ IF u = "bus" THEN TRUE ELSE UNCHANGED bus
  /\ IF u = "cls" THEN TRUE ELSE UNCHANGED cls
  /\ IF u = "mic" THEN TRUE ELSE UNCHANGED mic
  /\ IF u = "rest" THEN TRUE ELSE UNCHANGED rest
  /\ IF u = "who" THEN TRUE ELSE UNCHANGED who
  /\ IF u = "tr" THEN TRUE ELSE UNCHANGED tr
  /\ IF u = "wg" THEN TRUE ELSE UNCHANGED wg
  /\ IF u = "rm" THEN TRUE ELSE UNCHANGED rm
  /\ IF u = "snd" THEN TRUE ELSE UNCHANGED snd

\* connectToRoom up to the first room.connect (1154-1166).
ConnectBegin ==
  /\ conn.pc = "ready"
  /\ conn' = [conn EXCEPT !.pc = "attempting", !.attempt = 1]
  /\ Frame("conn")

\* room.connect settles (1166-1182): it resolves ("ok"), or rejects with a
\* message that indicates unauthorized/forbidden ("auth") or with another one
\* ("transient").
ConnectSettled ==
  /\ conn.pc = "attempting"
  /\ \E outcome \in {"ok", "transient", "auth"} :
       LET verdict == AttemptVerdict(outcome, conn.attempt, conn.max)
           c1 == [conn EXCEPT !.outcomes = Append(@, outcome)]
       IN conn' =
            CASE verdict = "resolve" -> [c1 EXCEPT !.pc = "resolved"]
              [] verdict = "rejectAuth" ->
                   [c1 EXCEPT !.pc = "rejected",
                              !.error = ConnectionError("Authentication failed")]
              [] verdict = "rejectExhausted" ->
                   [c1 EXCEPT !.pc = "rejected",
                              !.error = ConnectionError("Failed to connect after all attempts")]
              [] OTHER -> [c1 EXCEPT !.pc = "waiting"]
  /\ Frame("conn")

\* The backoff timer fires (1181-1182), at its delay or late, and the loop
\* makes the next attempt (1160-1166); the signal of the run's own controller
\* is not aborted.
ConnectBackoffEnds ==
  /\ conn.pc = "waiting"
  /\ \E late \in 0..MaxLate :
       LET delay == BackoffDelay(conn.delay, conn.attempt)
       IN conn' = [conn EXCEPT !.pc = "attempting", !.attempt = @ + 1,
                               !.waits = Append(@, delay),
                               !.elapsed = @ + delay + late]
  /\ Frame("conn")

NextConnect == ConnectBegin \/ ConnectSettled \/ ConnectBackoffEnds

SpecConnect == InitConnect /\ [][NextConnect]_vars

\* The runs of handleSSEStream on its own.
InitSSE ==
  /\ InitCore
  /\ sse \in {SseReady(body, earlier) : body \in BOOLEAN, earlier \in {{}, {"m0"}}}
  /\ OthersUnused("sse")

\* handleSSEStream up to the first read (737-749).
SSEBegin ==
  /\ sse.pc = "ready"
  /\ sse' = IF sse.body
            THEN [sse EXCEPT !.pc = "reading", !.currentMessageId = FallbackMessageId]
            ELSE [sse EXCEPT !.pc = "thrown",
                             !.error = WespokeError("No response body", "NO_RESPONSE_BODY", NoNumber)]
  /\ Frame("sse")

\* The loop handles the next complete record of the stream (760-868).
SSEHandleRecord ==
  /\ sse.pc = "reading"
  /\ sse.records < MaxRecords
  /\ \E rec \in SSERecords :
       sse' = [HandleSSERecord(sse, rec) EXCEPT !.records = @ + 1, !.last = rec,
                                                !.shape = NextShape(sse.shape, rec.type)]
  /\ Frame("sse")

\* The reader reports the end of the stream (749-753, 876-878).
SSEStreamEnds ==
  /\ sse.pc = "reading"
  /\ sse' = [sse EXCEPT !.pc = "returned", !.released = TRUE]
  /\ Frame("sse")

NextSSE == SSEBegin \/ SSEHandleRecord \/ SSEStreamEnds

SpecSSE == InitSSE /\ [][NextSSE]_vars

InitBus ==
  /\ InitCore
  /\ bus = [BusUnused EXCEPT !.pc = "constructed"]
  /\ OthersUnused("bus")

\* A call is made on the EventEmitter.
BusCall ==
  /\ bus.pc = "constructed"
  /\ bus.ops < MaxBusOps

\* on(event, h) (18-27).
On ==
  /\ BusCall
  /\ \E ev \in Events, h \in Handlers :
       bus' = [bus EXCEPT !.ops = @ + 1,
                          !.events[ev] = SetAdd(@, Registration(h, FALSE, 0))]
  /\ Frame("bus")

\* once(event, h) (32-39): a new wrapper is registered.
Once ==
  /\ BusCall
  /\ \E ev \in Events, h \in Handlers :
       bus' = [bus EXCEPT !.ops = @ + 1, !.serial = @ + 1,
                          !.events[ev] = SetAdd(@, Registration(h, TRUE, bus.serial + 1))]
  /\ Frame("bus")

\* off(event, h) (44-54).
Off ==
  /\ BusCall
  /\ \E ev \in Events, h \in Handlers :
       bus' = [bus EXCEPT !.ops = @ + 1,
                          !.events[ev] = SetDelete(@, Registration(h, FALSE, 0))]
  /\ Frame("bus")

\* emit(event, payload) (59-74), during which the handlers in throwers throw.
Emit ==
  /\ BusCall
  /\ \E ev \in Events, throwers \in SUBSET Handlers :
       LET run == emit(bus.events[ev], throwers)
       IN bus' = [bus EXCEPT !.ops = @ + 1, !.emits = @ + 1, !.event = ev,
                             !.throwers = throwers,
                             !.events[ev] = run.handlers, !.returned = run.returned,
                             !.calls = run.calls, !.logged = run.logged,
                             !.escaped = run.escaped]
  /\ Frame("bus")

\* removeAllListeners(event) and removeAllListeners() (79-87).
RemoveAllListeners ==
  /\ BusCall
  /\ \/ \E ev \in Events : bus' = [bus EXCEPT !.ops = @ + 1, !.events[ev] = <<>>]
     \/ bus' = [bus EXCEPT !.ops = @ + 1, !.events = [ev \in Events |-> <<>>]]
  /\ Frame("bus")

NextBus == On \/ Once \/ Off \/ Emit \/ RemoveAllListeners

SpecBus == InitBus /\ [][NextBus]_vars

\* C17: emit calls the handlers registered for the event when it is called,
\* each once and in the order of their registration, whichever of them throw,
\* and no exception leaves emit.
C17_EmitCallsAll ==
  [][ bus'.emits = bus.emits + 1
      => LET registered == bus.events[bus'.event]
         IN /\ Len(bus'.calls) = Len(registered)
            /\ \A i \in 1..Len(registered) : bus'.calls[i] = registered[i].h
            /\ ~bus'.escaped ]_vars

\* C17 witnessed: of two handlers registered for the event the first one
\* threw, and the second one was called after it.
C17_Witness ==
  /\ bus.emits > 0
  /\ Len(bus.calls) = 2
  /\ bus.calls[1] \in bus.throwers
  /\ bus.calls[2] \notin bus.throwers
  /\ bus.calls[1] # bus.calls[2]

\* C35: a wrapper that once registered for an event is no longer registered
\* for it after an emission of that event, whichever handlers threw during it,
\* so its handler is called for one emission at most.
C35_OnceRunsOnce ==
  [][ bus'.emits = bus.emits + 1
      => \A i \in 1..Len(bus.events[bus'.event]) :
           bus.events[bus'.event][i].once
             => \A j \in 1..Len(bus'.events[bus'.event]) :
                  bus'.events[bus'.event][j] # bus.events[bus'.event][i] ]_vars

\* The calls of parseAPIError on its own, over the bodies and status codes.
InitClassify ==
  /\ InitCore
  /\ cls \in {[ClsUnused EXCEPT !.pc = "ready", !.response = response,
                                !.statusCode = statusCode] :
                response \in ErrorBodies, statusCode \in StatusCodes}
  /\ OthersUnused("cls")

\* parseAPIError(response, statusCode) returns (116-142).
Classify ==
  /\ cls.pc = "ready"
  /\ cls' = [cls EXCEPT !.pc = "returned",
                        !.result = parseAPIError(cls.response, cls.statusCode)]
  /\ Frame("cls")

NextClassify == Classify

SpecClassify == InitClassify /\ [][NextClassify]_vars

\* C18: every call of the classifier returns an error of the taxonomy: an
\* AuthenticationError for 401 and 403, an InsufficientCreditsError for 402,
\* an AssistantNotFoundError for 404, a RateLimitError with the body's
\* retryAfter and resetAt for 429, and for every other status and for none
\* an APIError with the body's code, or UNKNOWN_ERROR when the body has none.
C18_ClassifierTable ==
  cls.pc = "returned" =>
    /\ cls.result.name \in TaxonomyKinds
    /\ cls.statusCode \in {401, 403} => cls.result.name = "AuthenticationError"
    /\ cls.statusCode = 402 => cls.result.name = "InsufficientCreditsError"
    /\ cls.statusCode = 404 => cls.result.name = "AssistantNotFoundError"
    /\ cls.statusCode = 429 =>
         /\ cls.result.name = "RateLimitError"
         /\ cls.result.retryAfter = cls.response.retryAfter
         /\ cls.result.resetAt = cls.response.resetAt
    /\ cls.statusCode \notin {401, 402, 403, 404, 429} =>
         /\ cls.result.name = "APIError"
         /\ cls.result.code = IF cls.response.code # Undefined THEN cls.response.code
                              ELSE "UNKNOWN_ERROR"

\* C18 witnessed: a 401 with a body was classified as an AuthenticationError.
C18_Witness ==
  /\ cls.pc = "returned"
  /\ cls.statusCode = 401
  /\ cls.response.code = "DENIED"
  /\ cls.result.name = "AuthenticationError"

\* A controller without a call, or with an established call whose published
\* track is not muted (1187-1206).
InitMute ==
  /\ InitCore
  /\ mic \in {MicUnused, [MicUnused EXCEPT !.hasCall = TRUE, !.track = "live"]}
  /\ OthersUnused("mic")

\* isMuted() (387-389).
isMuted == IsMutedOf(mic)

\* The invocations of toggleMute that have not settled.
TogglesPending == {t \in Toggles : mic.pc[t] \in {"fetch", "muting"}}

\* toggleMute() up to its request (337-360), or to the throw of a guard.
ToggleMute(t) ==
  /\ mic.invoked = t - 1
  /\ LET m1 == [mic EXCEPT !.invoked = t, !.emitted = {}, !.error = NoError]
     IN mic' =
          CASE ~mic.hasCall ->
                 [m1 EXCEPT !.pc[t] = "thrown",
                            !.error = WespokeError("No active call", "NO_ACTIVE_CALL", NoNumber)]
            [] mic.track # "live" ->
                 [m1 EXCEPT !.pc[t] = "thrown",
                            !.error = WespokeError("No active audio track", "NO_AUDIO_TRACK", NoNumber)]
            [] OTHER ->
                 [m1 EXCEPT !.pc[t] = "fetch", !.before[t] = mic.isMuted,
                            !.newMuted[t] = ~mic.isMuted,
                            !.sequential = @ /\ TogglesPending = {}]
  /\ Frame("mic")

\* The mute request settles (353-371): a failed one makes toggleMute throw;
\* after a successful one the track is asked to mute or unmute, unless the
\* field no longer holds one.
ToggleFetchResult(t) ==
  /\ mic.pc[t] = "fetch"
  /\ LET m1 == [mic EXCEPT !.emitted = {}, !.error = NoError]
         ok == [m1 EXCEPT !.apiOk[t] = TRUE]
     IN \/ mic' = IF mic.track = "live"
                  THEN [ok EXCEPT !.pc[t] = "muting"]
                  ELSE [ok EXCEPT !.pc[t] = "thrown", !.error = PlatformError("TypeError")]
        \/ \E err \in RequestErrors :
             mic' = [m1 EXCEPT !.pc[t] = "thrown", !.error = err]
  /\ Frame("mic")

\* The track has muted or unmuted (368-377); toggleMute emits and returns.
ToggleMuted(t) ==
  /\ mic.pc[t] = "muting"
  /\ mic' = [mic EXCEPT !.pc[t] = "returned", !.isMuted = mic.newMuted[t],
                        !.returned[t] = ToggleResult(mic.newMuted[t]),
                        !.returns = Append(@, ToggleResult(mic.newMuted[t])),
                        !.emitted = {"microphoneMuted"}, !.error = NoError]
  /\ Frame("mic")

\* endCall gives up the track and the call (304-323).
MicTeardown ==
  /\ mic.hasCall
  /\ mic' = [mic EXCEPT !.hasCall = FALSE, !.track = "none", !.emitted = {},
                        !.error = NoError]
  /\ Frame("mic")

NextMute ==
  \/ \E t \in Toggles : ToggleMute(t) \/ ToggleFetchResult(t) \/ ToggleMuted(t)
  \/ MicTeardown

SpecMute == InitMute /\ [][NextMute]_vars

C21_MuteOnlyAfterSuccess ==
  [][ /\ \A t \in Toggles :
           (mic.pc[t] = "fetch" /\ mic'.pc[t] = "thrown" /\ ~mic'.apiOk[t])
           => /\ mic'.error.name \in TaxonomyKinds
              /\ mic'.isMuted = mic.isMuted
              /\ mic'.emitted = {}
      /\ (mic'.isMuted # mic.isMuted \/ "microphoneMuted" \in mic'.emitted)
           => \E t \in Toggles : mic.apiOk[t] /\ mic.pc[t] = "muting" /\ mic'.pc[t] = "returned"
    ]_vars

\* A controller at one of the stages of a voice session.
InitRest ==
  /\ InitCore
  /\ rest \in {[RestUnused EXCEPT !.callState = stage[1], !.currentCallId = stage[2]] :
                 stage \in SessionStages}
  /\ OthersUnused("rest")

\* Invocation i of a method whose guards gave guardError: it throws, or it
\* issues its request (438-447, 475-482).
RestInvoke(i, method, guardError) ==
  IF guardError # NoError
  THEN [rest EXCEPT !.invoked = i, !.method[i] = method, !.pc[i] = "thrown",
                    !.error = guardError]
  ELSE [rest EXCEPT !.invoked = i, !.method[i] = method, !.pc[i] = "fetch",
                    !.requests = @ + 1, !.error = NoError]

\* sendMessage(message) up to its request (429-447).
SendMessage(i) ==
  /\ rest.invoked = i - 1
  /\ rest' = RestInvoke(i, "sendMessage",
                        SendMessageGuard(rest.callState, rest.currentCallId))
  /\ Frame("rest")

\* getMessages(limit, offset) up to its request (467-482).
GetMessages(i) ==
  /\ rest.invoked = i - 1
  /\ rest' = RestInvoke(i, "getMessages",
                        GetMessagesGuard(rest.callState, rest.currentCallId))
  /\ Frame("rest")

\* The request of invocation i settles (449-461, 484-492).
RestResponse(i) ==
  /\ rest.pc[i] = "fetch"
  /\ \/ rest' = [rest EXCEPT !.pc[i] = "returned", !.error = NoError]
     \/ \E err \in RequestErrors : rest' = [rest EXCEPT !.pc[i] = "thrown", !.error = err]
  /\ Frame("rest")

\* The voice session moves on to another of its stages.
SessionMoves ==
  /\ \E stage \in SessionStages :
       /\ <<rest.callState, rest.currentCallId>> # stage
       /\ rest' = [rest EXCEPT !.callState = stage[1], !.currentCallId = stage[2],
                               !.error = NoError]
  /\ Frame("rest")

NextRest ==
  \/ \E i \in RestCalls : SendMessage(i) \/ GetMessages(i) \/ RestResponse(i)
  \/ SessionMoves

SpecRest == InitRest /\ [][NextRest]_vars

\* C22: a sendMessage or getMessages that is invoked when the state is not
\* Connected or no call id is set throws one of the errors of its guards and
\* issues no request.
C22_MessagesNeedConnected ==
  [][ \A i \in RestCalls :
        (rest.invoked = i - 1 /\ rest'.invoked = i
         /\ ~(rest.callState = CONNECTED /\ rest.currentCallId # NoId))
        => /\ rest'.pc[i] = "thrown"
           /\ rest'.error.code \in {"NO_ACTIVE_CALL", "NOT_CONNECTED"}
           /\ rest'.requests = rest.requests ]_vars

\* The calls of isAssistantParticipant on its own, over the participants.
InitIdentify ==
  /\ InitCore
  /\ who \in {[WhoUnused EXCEPT !.pc = "ready", !.metadata = metadata,
                                !.identity = identity] :
                metadata \in Metadatas, identity \in Identities}
  /\ OthersUnused("who")

\* isAssistantParticipant(participant) returns (973-989).
Identify ==
  /\ who.pc = "ready"
  /\ who' = [who EXCEPT !.pc = "returned",
                        !.result = isAssistantParticipant(who.metadata, who.identity)]
  /\ Frame("who")

NextIdentify == Identify

SpecIdentify == InitIdentify /\ [][NextIdentify]_vars

\* The identity, lower-cased, contains "agent" or "assistant".
IdentityMatches ==
  \/ includes(toLowerCase(who.identity), <<"a", "g", "e", "n", "t">>)
  \/ includes(toLowerCase(who.identity), <<"a", "s", "s", "i", "s", "t", "a", "n", "t">>)

\* C23: a participant is taken for the assistant exactly when its metadata is
\* JSON with role "assistant", or its metadata is absent or not JSON and its
\* identity contains "agent" or "assistant" in whatever case.
C23_AssistantIdentification ==
  who.pc = "returned" =>
    (who.result <=>
       \/ who.metadata = "role:assistant"
       \/ who.metadata \in {"absent", "unparsable"} /\ IdentityMatches)

\* The widget after mounting: an empty transcript (52).
InitTranscript ==
  /\ InitCore
  /\ tr = [TrUnused EXCEPT !.pc = "mounted"]
  /\ OthersUnused("tr")

\* The controller emits 'message' (139-165).
OnMessage ==
  /\ tr.pc = "mounted"
  /\ tr.deliveries < MaxDeliveries
  /\ \E id \in EventIds, content \in Texts :
       LET widgetMessage == WidgetMessage(id, content)
       IN tr' = [tr EXCEPT !.messages = UpsertMessage(@, widgetMessage),
                           !.deliveries = @ + 1, !.event = "message",
                           !.id = widgetMessage.id]
  /\ Frame("tr")

\* The controller emits 'transcription' (168-180).
OnTranscription ==
  /\ tr.pc = "mounted"
  /\ tr.deliveries < MaxDeliveries
  /\ \E id \in EventIds, isFinal \in BOOLEAN, text \in Texts :
       tr' = [tr EXCEPT !.messages = AppendTranscription(@, id, isFinal, text),
                        !.deliveries = @ + 1, !.event = "transcription",
                        !.id = IF id # Undefined THEN id ELSE "transcription-now"]
  /\ Frame("tr")

NextTranscript == OnMessage \/ OnTranscription

SpecTranscript == InitTranscript /\ [][NextTranscript]_vars

\* C27: the transcript never holds two entries with the same id, and a
\* delivery with an id the transcript holds does not make it longer.
C27_OneEntryPerId ==
  [][ /\ \A i, j \in 1..Len(tr'.messages) :
           tr'.messages[i].id = tr'.messages[j].id => i = j
      /\ (\E i \in 1..Len(tr.messages) : tr.messages[i].id = tr'.id)
           => Len(tr'.messages) = Len(tr.messages) ]_vars

\* ---- WespokeWidget (src/unnamed/part_004): handlers, renders and timers ----

\* The widget is mounted closed, in chat or hybrid mode (48-63).
InitWidget ==
  /\ InitCore
  /\ \E m \in WidgetModes : wg = [WgUnused EXCEPT !.pc = "mounted", !.mode = m]
  /\ OthersUnused("wg")

\* What handleToggle and handleClose do alike when closing (244-252, 635-643).
Closing(w) ==
  [w EXCEPT !.nIsOpen = FALSE, !.chatStartAttemptedRef = FALSE,
            !.timers = @ \ {w.retryTimeoutRef}, !.retryTimeoutRef = 0]

\* sdk.endChatSession() called by waiter, whose continuation runs at once
\* when the controller returns without a request.
SdkEndChatFor(w, waiter) ==
  IF SdkEndChatKind(w) = "fetch"
  THEN [SdkEndChatBegin(w) EXCEPT !.endChat = waiter]
  ELSE IF waiter = "handleEndChatSession"
  THEN HandleEndChatSessionDone(SdkEndChatBegin(w))
  ELSE SdkEndChatBegin(w)

\* sdk.endCall() called by waiter, likewise.
SdkEndCallFor(w, waiter) ==
  IF w.callState = IDLE \/ ~w.currentCallId
  THEN IF waiter = "handleEndCall" THEN HandleEndCallDone(w) ELSE w
  ELSE SdkEndCallBegin(w, waiter)

\* The user clicks the floating button (236-309).
HandleToggle ==
  /\ wg.pc = "mounted"
  /\ wg.clicks < MaxClicks
  /\ wg.endCall = "none" /\ wg.endChat = "none"
  /\ IF ~wg.isOpen
     THEN wg' = RenderAll([Click(wg) EXCEPT !.nIsOpen = TRUE,
                                         !.chatStartAttemptedRef = FALSE])
     ELSE LET w1 == Closing(Click(wg))
              w2 == IF wg.mode = "hybrid" /\ wg.voiceState # "idle"
                    THEN SdkEndCallFor(w1, "toggle") ELSE w1
              w3 == IF \/ wg.mode = "hybrid" /\ wg.chatState # "idle"
                       \/ wg.mode = "chat" /\ wg.state # "idle"
                    THEN SdkEndChatFor(w2, "toggle") ELSE w2
              w4 == IF wg.voiceState # "idle" \/ wg.chatState # "idle"
                    THEN [w3 EXCEPT !.nState = "idle", !.nVoiceState = "idle",
                                    !.nChatState = "idle"]
                    ELSE w3
          IN wg' = RenderAll(w4)
  /\ Frame("wg")

\* The user clicks the window's close button (634-661).
HandleClose ==
  /\ wg.pc = "mounted"
  /\ wg.clicks < MaxClicks
  /\ wg.isOpen
  /\ wg.endCall = "none" /\ wg.endChat = "none"
  /\ LET w1 == Closing(Click(wg))
         w2 == IF wg.mode = "hybrid" /\ wg.voiceState # "idle"
               THEN SdkEndCallFor(w1, "handleEndCall") ELSE w1
         w3 == IF \/ wg.mode = "hybrid" /\ wg.chatState # "idle"
                  \/ wg.mode = "chat" /\ wg.state # "idle"
               THEN SdkEndChatFor(w2, "handleEndChatSession") ELSE w2
     IN wg' = RenderAll(w3)
  /\ Frame("wg")

\* The user clicks the start-call button, shown in hybrid mode while the
\* voice state is neither connecting nor connected (312-361).
HandleStartCall ==
  /\ wg.pc = "mounted"
  /\ wg.clicks < MaxClicks
  /\ wg.mode = "hybrid" /\ wg.isOpen /\ wg.voiceState = "idle"
  /\ wg.startCall = "none"
  /\ LET w == Click(wg)
     IN IF w.chatState = "idle"
        THEN wg' = RenderAll(HandleStartCallProceed(w))
        ELSE IF SdkEndChatKind(w) = "fetch"
        THEN /\ w.endChat = "none"
             /\ wg' = RenderAll([SdkEndChatBegin(w) EXCEPT
                                !.endChat = "handleStartCall",
                                !.startCall = "endingChat"])
        ELSE wg' = RenderAll(HandleStartCallProceed(
                     [SdkEndChatBegin(w) EXCEPT !.nChatState = "idle",
                                                !.chatStartAttemptedRef = FALSE]))
  /\ Frame("wg")

\* The user clicks the end-call button, shown while the voice state is
\* connected (363-401).
HandleEndCall ==
  /\ wg.pc = "mounted"
  /\ wg.clicks < MaxClicks
  /\ wg.mode = "hybrid" /\ wg.isOpen /\ wg.voiceState = "connected"
  /\ wg.endCall = "none"
  /\ wg' = RenderAll(SdkEndCallFor(Click(wg), "handleEndCall"))
  /\ Frame("wg")

\* The chat-creation request of invocation i settles (errors.ts 519-568) and
\* handleStartChatSession continues (463-541).
ChatCreateSettles(i) ==
  /\ wg.pc = "mounted"
  /\ wg.cs[i].pc = "creating"
  /\ \E outcome \in {"ok", "auth", "transient", "aborted"} :
       /\ outcome = "aborted" => i \in wg.aborted
       /\ wg' = RenderAll(
            IF outcome = "ok"
            THEN LET w1 == [wg EXCEPT !.currentChatId = TRUE]
                 IN IF w1.shouldEndChatAfterStart
                    THEN [SdkSetState(w1, DISCONNECTING) EXCEPT !.cs[i].pc = "teardown"]
                    ELSE ChatStartResolved(
                           [SdkSetState(w1, CONNECTED) EXCEPT !.chatAbortController = 0], i)
            ELSE LET w1 == [OnDisconnected(SdkSetState(wg, IDLE)) EXCEPT
                              !.chatAbortController = 0]
                 IN IF outcome = "aborted"
                    THEN ChatStartResolved(w1, i)
                    ELSE ChatStartCatch(w1, i, outcome))
  /\ Frame("wg")

\* The termination request of the teardown inside startChatSession settles
\* (errors.ts 546-549, 657-682) and handleStartChatSession continues.
ChatTeardownSettles(i) ==
  /\ wg.pc = "mounted"
  /\ wg.cs[i].pc = "teardown"
  /\ \E outcome \in {"ok", "auth", "transient"} :
       LET w1 == [SdkEndChatDone(wg) EXCEPT !.chatAbortController = 0]
       IN wg' = RenderAll(IF outcome = "ok"
                THEN ChatStartResolved(w1, i)
                ELSE ChatStartCatch(OnDisconnected(SdkSetState(w1, IDLE)), i, outcome))
  /\ Frame("wg")

\* The termination request of sdk.endChatSession() settles (errors.ts
\* 657-682) and its caller continues (318-328, 582-625).
EndChatSettles ==
  /\ wg.pc = "mounted"
  /\ wg.endChat # "none"
  /\ \E ok \in BOOLEAN :
       LET w1 == [SdkEndChatDone(wg) EXCEPT !.endChat = "none", !.excused = TRUE]
       IN wg' = RenderAll(IF wg.endChat = "handleEndChatSession"
                THEN HandleEndChatSessionDone(w1)
                ELSE IF wg.endChat = "handleStartCall"
                THEN IF ok
                     THEN HandleStartCallProceed(
                            [w1 EXCEPT !.nChatState = "idle",
                                       !.chatStartAttemptedRef = FALSE])
                     ELSE HandleStartCallCatch(w1)
                ELSE w1)
  /\ Frame("wg")

\* The token request of sdk.startCall() settles (errors.ts 228-231, 254-262).
StartCallToken ==
  /\ wg.pc = "mounted"
  /\ wg.startCall = "token"
  /\ \E ok \in BOOLEAN :
       wg' = RenderAll(IF ok
             THEN [wg EXCEPT !.currentCallId = TRUE, !.startCall = "room"]
             ELSE HandleStartCallCatch(
                    [SdkSetState(wg, IDLE) EXCEPT !.currentCallId = FALSE]))
  /\ Frame("wg")

\* The room connection of sdk.startCall() settles (errors.ts 233-262) and
\* handleStartCall continues (334-360); after endCall aborted the connection
\* it can only fail.
StartCallRoom ==
  /\ wg.pc = "mounted"
  /\ wg.startCall \in {"room", "roomAborted"}
  /\ \E ok \in BOOLEAN :
       /\ ok => wg.startCall = "room"
       /\ wg' = RenderAll(IF ok
                THEN [SdkSetState(wg, CONNECTED) EXCEPT
                        !.nVoiceState = "connected", !.nState = "connected",
                        !.startCall = "none"]
                ELSE HandleStartCallCatch(
                       [SdkSetState(wg, IDLE) EXCEPT !.currentCallId = FALSE]))
  /\ Frame("wg")

\* The end request of sdk.endCall() settles (errors.ts 280-325): on success
\* the room is disconnected, whose Disconnected handler (errors.ts 908-912)
\* emits 'disconnected'; handleEndCall continues (372-397).
EndCallSettles ==
  /\ wg.pc = "mounted"
  /\ wg.endCall # "none"
  /\ \E ok \in BOOLEAN :
       wg' = RenderAll(IF ok
             THEN LET w1 == [OnDisconnected(SdkSetState(wg, DISCONNECTED)) EXCEPT
                               !.currentCallId = FALSE, !.endCall = "none",
                               !.excused = TRUE,
                               !.startCall = IF @ = "room" THEN "roomAborted" ELSE @]
                  IN IF wg.endCall = "handleEndCall" THEN HandleEndCallDone(w1) ELSE w1
             ELSE [wg EXCEPT !.endCall = "none"])
  /\ Frame("wg")

\* The room of a connected call is disconnected by the far side (errors.ts
\* 908-912).
RemoteRoomDisconnected ==
  /\ wg.pc = "mounted"
  /\ wg.clicks < MaxClicks
  /\ wg.callState = CONNECTED /\ wg.currentCallId /\ wg.startCall = "none"
  /\ wg' = RenderAll([OnDisconnected(SdkSetState(wg, DISCONNECTED)) EXCEPT
              !.excused = TRUE, !.clicks = @ + 1])
  /\ Frame("wg")

\* The retry timer set by invocation i fires (520-535); the callback calls the
\* handleStartChatSession of the closure that set it.
RetryTimerFires(i) ==
  /\ wg.pc = "mounted"
  /\ i \in wg.timers
  /\ LET w1 == [wg EXCEPT !.timers = @ \ {i}, !.chatStartAttemptedRef = FALSE]
     IN IF wg.isOpenRef /\ wg.chatStateRef = "idle" /\ wg.voiceStateRef = "idle"
        THEN /\ wg.chatStarts < MaxChatStarts
             /\ wg' = RenderAll(HandleStartChatSession(w1, wg.cs[i].voiceIdle, "timer"))
        ELSE wg' = w1
  /\ Frame("wg")

NextWidget ==
  \/ HandleToggle
  \/ HandleClose
  \/ HandleStartCall
  \/ HandleEndCall
  \/ \E i \in ChatStarts : ChatCreateSettles(i)
  \/ \E i \in ChatStarts : ChatTeardownSettles(i)
  \/ EndChatSettles
  \/ StartCallToken
  \/ StartCallRoom
  \/ EndCallSettles
  \/ RemoteRoomDisconnected
  \/ \E i \in ChatStarts : RetryTimerFires(i)

SpecWidget == InitWidget /\ [][NextWidget]_vars

\* C24: after a chat start failed with an authentication error or a
\* call-in-progress error, the widget invokes handleStartChatSession again
\* only once the user made a gesture or a session ended: no invocation
\* follows such a failure directly.
C24_NoRetryAfterAuthOrBusy ==
  \A i \in ChatStarts : wg.cs[i].after \notin {"auth", "callInProgress"}

\* C25: a chat start that follows a transient failure with no user gesture or
\* session end in between is made by the retry timer, and it is the only one
\* in a row.
C25_OneDelayedRetry ==
  \A i \in ChatStarts :
    wg.cs[i].after = "transient" => wg.cs[i].cause = "timer" /\ wg.cs[i].nth <= 1

\* C26: a chat start made by the retry timer happens only with the widget
\* open, the chat state idle and the voice state idle when the timer fires;
\* closing the widget leaves no retry timer pending; and no chat start, by the
\* timer or by the auto-start effect, happens while the widget is closed or
\* the voice state is not idle.
C26_RetryOnlyOpenAndIdle ==
  [][ /\ \A i \in ChatStarts :
           (wg.cs[i].pc = "none" /\ wg'.cs[i].pc # "none")
           => /\ wg'.isOpen /\ wg'.voiceState = "idle"
              /\ wg'.cs[i].cause = "timer"
                   => wg.isOpen /\ wg.chatState = "idle" /\ wg.voiceState = "idle"
      /\ (wg.isOpen /\ ~wg'.isOpen) => wg'.timers = {}
    ]_vars

\* C28: in hybrid mode the widget's voice state and chat state are never both
\* other than idle.
C28_VoiceAndChatExclusive ==
  wg.mode = "hybrid" => ~(wg.voiceState # "idle" /\ wg.chatState # "idle")

\* ---- the Room's participant and track handlers on their own: events ----

InitRoom ==
  /\ InitCore
  /\ rm = [RmUnused EXCEPT !.pc = "ready"]
  /\ OthersUnused("rm")

\* The Room has left the scene: its participants and subscriptions are gone.
RoomGone(r, stage) ==
  [r EXCEPT !.stage = stage, !.checked = FALSE, !.order = <<>>,
            !.subscribed = {}, !.first = "none"]

\* startCall up to the connected Room (216-242): a new Room with its handlers;
\* the participant and track fields are not touched.
RmStartCall ==
  /\ rm.pc = "ready"
  /\ rm.stage \in {"none", "remote"}
  /\ rm.calls < MaxRoomCalls
  /\ rm' = [RoomGone(rm, "live") EXCEPT !.calls = @ + 1]
  /\ Frame("rm")

\* A participant joins: before checkExistingParticipants it may be in the
\* Room's map without a ParticipantConnected event; with the event the handler
\* runs (932-939).
RmParticipantConnected(name) ==
  /\ rm.pc = "ready" /\ rm.stage = "live"
  /\ rm.events < MaxRoomEvents
  /\ \A i \in 1..Len(rm.order) : rm.order[i] # name
  /\ \E announced \in BOOLEAN :
       /\ ~announced => ~rm.checked
       /\ LET r1 == [rm EXCEPT !.order = Append(@, name), !.events = @ + 1]
          IN rm' = IF announced
                   THEN [LatchAssistant(r1, name) EXCEPT
                           !.first = IF @ = "none" /\ IsAssistant(name) THEN name ELSE @]
                   ELSE r1
  /\ Frame("rm")

\* Step 6 of startCall: checkExistingParticipants (247, 1208-1218).
RmCheckExistingParticipants ==
  /\ rm.pc = "ready" /\ rm.stage = "live"
  /\ ~rm.checked
  /\ rm' = [LatchInOrder(rm, rm.order) EXCEPT
              !.checked = TRUE,
              !.first = IF @ = "none" THEN FirstAssistantIn(rm.order) ELSE @]
  /\ Frame("rm")

\* A participant leaves: the ParticipantDisconnected handler (941-947).
RmParticipantDisconnected(name) ==
  /\ rm.pc = "ready" /\ rm.stage = "live"
  /\ \E i \in 1..Len(rm.order) : rm.order[i] = name
  /\ LET r1 == IF rm.assistantParticipant = <<rm.calls, name>>
               THEN [DetachEach(rm, {<<rm.calls, name, k>> : k \in
                                       {k \in TrackKinds : <<name, k>> \in rm.subscribed}})
                       EXCEPT !.assistantParticipant = NoParticipant]
               ELSE rm
     IN rm' = [r1 EXCEPT !.order = SelectSeq(@, LAMBDA n : n # name),
                         !.subscribed = {t \in @ : t[1] # name},
                         !.first = IF @ = name THEN "none" ELSE @]
  /\ Frame("rm")

\* A track of a participant is subscribed, or subscribed again: the
\* TrackSubscribed handler (949-953).
RmTrackSubscribed(name, kind) ==
  /\ rm.pc = "ready" /\ rm.stage = "live"
  /\ rm.events < MaxRoomEvents
  /\ \E i \in 1..Len(rm.order) : rm.order[i] = name
  /\ LET r1 == [rm EXCEPT !.subscribed = @ \cup {<<name, kind>>}, !.events = @ + 1]
     IN rm' = IF kind = "audio" /\ <<rm.calls, name>> = rm.assistantParticipant
              THEN handleAssistantAudioTrack(r1, <<rm.calls, name, kind>>)
              ELSE r1
  /\ Frame("rm")

\* A track is unsubscribed: the TrackUnsubscribed handler (955-959).
RmTrackUnsubscribed(name, kind) ==
  /\ rm.pc = "ready" /\ rm.stage = "live"
  /\ <<name, kind>> \in rm.subscribed
  /\ rm' = [DetachEach(rm, {<<rm.calls, name, kind>>}) EXCEPT
              !.subscribed = @ \ {<<name, kind>>}]
  /\ Frame("rm")

\* endCall to its end (268-325): cleanupAllTracks and the release of the latch
\* (305, 315); it is accepted after a remote disconnect too.
RmEndCall ==
  /\ rm.pc = "ready"
  /\ rm.stage \in {"live", "remote"}
  /\ rm' = [RoomGone(rm, "none") EXCEPT !.attachedTracks = {},
                                        !.assistantParticipant = NoParticipant]
  /\ Frame("rm")

\* The Room is disconnected by the far side: the Disconnected handler (908-912).
RmDisconnected ==
  /\ rm.pc = "ready" /\ rm.stage = "live"
  /\ rm' = RoomGone(rm, "remote")
  /\ Frame("rm")

\* A step of startCall after the connect fails: its catch block (254-262).
RmStartCallFails ==
  /\ rm.pc = "ready" /\ rm.stage = "live"
  /\ ~rm.checked
  /\ rm' = RoomGone(rm, "none")
  /\ Frame("rm")

NextRoom ==
  \/ RmStartCall
  \/ \E name \in ParticipantNames : RmParticipantConnected(name)
  \/ RmCheckExistingParticipants
  \/ \E name \in ParticipantNames : RmParticipantDisconnected(name)
  \/ \E name \in ParticipantNames, kind \in TrackKinds : RmTrackSubscribed(name, kind)
  \/ \E name \in ParticipantNames, kind \in TrackKinds : RmTrackUnsubscribed(name, kind)
  \/ RmEndCall
  \/ RmDisconnected
  \/ RmStartCallFails

SpecRoom == InitRoom /\ [][NextRoom]_vars

\* C33: while a call's Room is live, the first participant the identification
\* policy accepted, as long as it has not left, is the tracked assistant.
C33_FirstAssistantTracked ==
  (rm.stage = "live" /\ rm.first # "none")
    => rm.assistantParticipant = <<rm.calls, rm.first>>

\* C34: every attached track is an audio track of the tracked assistant
\* participant of the current call, subscribed in its live Room.
C34_OnlyAssistantAudioAttached ==
  \A sid \in rm.attachedTracks :
    /\ sid[3] = "audio"
    /\ rm.assistantParticipant = <<sid[1], sid[2]>>
    /\ rm.stage = "live" /\ sid[1] = rm.calls
    /\ <<sid[2], sid[3]>> \in rm.subscribed

\* ---- sendChatMessage on its own: invocations ----

InitSend ==
  /\ InitCore
  /\ snd \in {[SndUnused EXCEPT !.pc = "ready", !.callState = stage[1],
                                !.currentChatId = stage[2]] : stage \in ChatStages}
  /\ OthersUnused("snd")

\* sendChatMessage(content) up to its fetch (575-601): the guards, the user
\* message with its id from the clock, the ledger test, and the request.
SendChatMessage ==
  /\ snd.pc = "ready"
  /\ snd.invoked < MaxSends
  /\ snd' =
       IF snd.currentChatId = NoId
       THEN [snd EXCEPT !.invoked = @ + 1, !.userEmits = 0,
                        !.error = WespokeError("No active chat session", "NO_ACTIVE_CHAT", NoNumber)]
       ELSE IF snd.callState # CONNECTED
       THEN [snd EXCEPT !.invoked = @ + 1, !.userEmits = 0,
                        !.error = WespokeError("Not connected to a chat session", "NOT_CONNECTED", NoNumber)]
       ELSE LET id == UserMessageId(snd.now)
                fresh == id \notin snd.seenMessageIds
            IN [snd EXCEPT !.invoked = @ + 1, !.passed = @ + 1, !.error = NoError,
                           !.lastId = id,
                           !.seenMessageIds = IF fresh THEN @ \cup {id} ELSE @,
                           !.userEmits = IF fresh THEN 1 ELSE 0,
                           !.requests = @ + 1, !.pending = @ + 1]
  /\ Frame("snd")

\* The request of a sendChatMessage settles and its stream is read to the
\* end (601-616); the user ids of the ledger are not touched by it.
SendSettles ==
  /\ snd.pc = "ready"
  /\ snd.pending > 0
  /\ snd' = [snd EXCEPT !.pending = @ - 1]
  /\ Frame("snd")

\* Date.now() moves on by a millisecond.
ClockTicks ==
  /\ snd.pc = "ready"
  /\ snd.now < MaxClock
  /\ snd' = [snd EXCEPT !.now = @ + 1]
  /\ Frame("snd")

NextSend == SendChatMessage \/ SendSettles \/ ClockTicks

SpecSend == InitSend /\ [][NextSend]_vars

\* C38: every sendChatMessage that passes its guards emits one user 'message'
\* before its request, with an id that was not in the ledger.
C38_EachSendEmitsFreshUserMessage ==
  [][ snd'.passed = snd.passed + 1
      => /\ snd'.userEmits = 1
         /\ snd'.lastId \notin snd.seenMessageIds
         /\ snd'.lastId \in snd'.seenMessageIds
         /\ snd'.requests = snd.requests + 1 ]_vars

\* C39: when handleStartChatSession sets chatState 'connected' and fires
\* onCallStart, the controller holds a chat id in state Connected, and the
\* start was not one that a close of the widget aborted.
C39_ConnectedMeansSdkSession ==
  [][ \A i \in ChatStarts :
        (wg.cs[i].pc # "started" /\ wg'.cs[i].pc = "started")
        => /\ wg'.chatState = "connected"
           /\ wg'.currentChatId
           /\ wg'.callState = CONNECTED
           /\ i \notin wg.aborted ]_vars

\* C13: a run of connectToRoom makes at most maxRetryAttempts attempts, makes
\* an attempt only after transient failures of all earlier ones (none after a
\* success, none after an authentication failure), resolves exactly when its
\* last attempt succeeded, and is rejected exactly when its last attempt
\* failed for authentication or was the failed attempt number
\* maxRetryAttempts, then with a ConnectionError.
C13_ConnectRetries ==
  LET n == Len(conn.outcomes)
  IN /\ n <= conn.max /\ conn.attempt <= conn.max
     /\ \A i \in 1..(n - 1) : conn.outcomes[i] = "transient"
     /\ conn.pc = "resolved" <=> (n > 0 /\ conn.outcomes[n] = "ok")
     /\ conn.pc = "rejected" <=>
          (n > 0 /\ (conn.outcomes[n] = "auth"
                       \/ (conn.outcomes[n] = "transient" /\ n = conn.max)))
     /\ conn.pc = "rejected" => conn.error.name = "ConnectionError"

\* C13 witnessed: with maxRetryAttempts = 3 the run failed twice transiently
\* and resolved on the third attempt.
C13_Witness ==
  /\ conn.max = 3
  /\ conn.outcomes = <<"transient", "transient", "ok">>
  /\ conn.pc = "resolved"

\* C14: before attempt k + 1 the run waited retryDelay * 1.5^(k-1), so
\* 2^(k-1) * wait = 3^(k-1) * retryDelay for every wait k; there is one wait
\* before every attempt but the first; and from the third attempt on at least
\* retryDelay * 2.5 has elapsed since the first.
C14_BackoffDelays ==
  /\ \A k \in 1..Len(conn.waits) :
       Pow(2, k - 1) * conn.waits[k] = Pow(3, k - 1) * conn.delay
  /\ conn.attempt > 0 => Len(conn.waits) = conn.attempt - 1
  /\ conn.attempt >= 3 => 2 * conn.elapsed >= 5 * conn.delay

\* C14 witnessed: the first two attempts failed transiently, the third
\* succeeded, and the two waits were retryDelay and retryDelay * 1.5.
C14_Witness ==
  /\ conn.outcomes = <<"transient", "transient", "ok">>
  /\ conn.delay = retryDelay
  /\ conn.waits = <<retryDelay, (3 * retryDelay) \div 2>>
  /\ 2 * conn.elapsed >= 5 * retryDelay

\* C15: when the backoff wait of a connect ends whose abort handle endCall has
\* aborted, no further attempt is made and startCall fails with the
\* ConnectionError of the abort.
C15_AbortedConnectStops ==
  [][ \A s \in Calls :
        (s \in aborted /\ startPc[s] = "backoff" /\ startPc'[s] # "backoff")
        => /\ startPc'[s] = "failed"
           /\ thrown' = ConnectionError("Connection aborted") ]_vars

\* C19: whatever a method of the controller throws or rejects with, and with
\* it the value its catch emits on 'error', is an error of the taxonomy.
C19_OnlyTaxonomyErrors == thrown = NoError \/ thrown.name \in TaxonomyKinds

\* C29: the state is never Error; and whenever nothing is pending, the state
\* is not Connected or Disconnecting without a session id, and at least one of
\* startCall and startChatSession is accepted or one of endCall and
\* endChatSession does more than return.
C29_NoPermanentTrap ==
  /\ this.callState # ERROR
  /\ Quiescent =>
       /\ ~(/\ this.callState \in {CONNECTED, DISCONNECTING}
            /\ this.currentCallId = NoId /\ this.currentChatId = NoId)
       /\ \/ StartCallAccepted
          \/ StartChatAccepted
          \/ EndCallAccepted(this)
          \/ EndChatKind(this) # "noop"

\* C30: when the creation request of a chat start that endChatSession aborted
\* succeeds, no 'connected' is emitted, the state does not become Connected
\* and the termination of the new chat id is requested; when that termination
\* settles the chat id is null.
C30_AbortedStartTornDown ==
  [][ \A c \in Chats :
        /\ (/\ chatPc[c] = "create" /\ c \in chatAborted
            /\ this.currentChatId # c /\ this'.currentChatId = c)
           => /\ "connected" \notin emitted'
              /\ this'.callState # CONNECTED
              /\ chatPc'[c] = "ending"
        /\ (chatPc[c] = "ending" /\ chatPc'[c] # "ending")
           => this'.currentChatId = NoId
    ]_vars

\* C31: when the creation request of a chat start settles as aborted, the
\* start emits 'disconnected' with the abort reason and no 'error', does not
\* reject, and leaves the state Idle with no chat id.
C31_AbortIsCleanDisconnect ==
  [][ \A c \in Chats :
        (chatPc[c] = "create" /\ chatPc'[c] = "aborted")
        => /\ emitted' = {DisconnectedWith("Chat session start aborted")}
           /\ thrown' = NoError
           /\ this'.callState = IDLE
           /\ this'.currentChatId = NoId
    ]_vars

\* C37: when the creation request of an aborted chat start settles as aborted
\* while a session started after the abort is connecting or connected, the
\* state is not changed, the cancellation handle is not cleared and no
\* 'disconnected' is emitted.
C37_LateAbortLeavesLaterSession ==
  [][ \A c \in Chats :
        (/\ chatPc[c] = "create" /\ chatPc'[c] = "aborted"
         /\ this.callState \in {CONNECTING, CONNECTED})
        => /\ this'.callState = this.callState
           /\ this'.chatAbortController = this.chatAbortController
           /\ emitted' \cap DisconnectedEvents = {}
    ]_vars

C36_LatePollIsDropped ==
  [][ \A k \in pollsInFlight :
        (k \notin pollsInFlight' /\ this.currentCallId # k)
        => /\ this'.seenMessageIds = this.seenMessageIds
           /\ msgEmits' = msgEmits
           /\ "message" \notin emitted' ]_vars

\* C40: whenever nothing is in flight and the controller is Idle or
\* Disconnected, no acquired local audio track is left unstopped.
C40_NoMicrophoneOutlivesCall ==
  (Quiescent /\ this.callState \in {IDLE, DISCONNECTED}) => liveTracks = {}

Next ==
  \/ StartCall
  \/ StartCallRejected
  \/ \E s \in Calls : TokenResponse(s)
  \/ \E s \in Calls : AudioDone(s)
  \/ \E s \in Calls : ConnectResult(s)
  \/ \E s \in Calls : BackoffDone(s)
  \/ \E s \in Calls : MicResult(s)
  \/ \E s \in Calls : PublishResult(s)
  \/ \E r \in Calls : RoomDisconnected(r)
  \/ EndCall
  \/ EndCallNoop
  \/ \E e \in EndCalls : EndFetchResult(e)
  \/ \E e \in EndCalls : EndDisconnected(e)
  \/ StartChatSession
  \/ StartChatRejected
  \/ \E c \in Chats : ChatCreateResult(c)
  \/ \E c \in Chats : ChatEndResult(c)
  \/ EndChatAbort
  \/ EndChatNoop
  \/ EndChatSession
  \/ \E d \in EndChats : EndChatResult(d)
  \/ Destroy
  \/ \E r \in Calls, m \in MsgIds, isComplete \in BOOLEAN : DataReceived(r, m, isComplete)
  \/ \E i \in Calls : PollTick(i)
  \/ \E k \in Calls : PollResponse(k)

Spec == Init /\ [][Next]_vars
====
